---- MODULE Spec2Model ----
(***************************************************************************)
(* Model of lib/bag_generator/baggage_creator_2d.py: the 2D baggage        *)
(* creator.  Object2D rasterizes shape descriptors into masks;             *)
(* BaggageImage2D places the objects of each slice on a labelled canvas    *)
(* with the overlap, gravity, sheet and liquid rules.                      *)
(*                                                                         *)
(* Arrays are modelled by their extent and their cells: a mask is a        *)
(* record [h, w, v] with v a function over (0..h-1) \X (0..w-1).  A canvas *)
(* layer ws_bag[:, :, s] is the function of the cells that differ from     *)
(* the layer after construction (bb_label on the boundary ring, 0          *)
(* elsewhere).  Rotations are taken at 0 degrees.                          *)
(***************************************************************************)
EXTENDS Integers, Sequences, FiniteSets, TLC

\* ------------------------------------------------------------------------
\* Sizes of the modelled run
\* ------------------------------------------------------------------------

\* boundary[0] of get_bag_background: half width of the container
BB_H == 28

\* boundary[1] of get_bag_background: thickness of the container wall
BB_T == 1

\* img_vol[2]: number of slices of the virtual bag
NUM_SLICES == 2

\* dim_range of create_random_object_list
MIN_DIM == 1

MAX_DIM == 3

\* number of objects of obj_list
NUM_OBJECTS == 2

\* number of spawn columns taken, from the first of the range
SPAWN_COLS == 2

\* ------------------------------------------------------------------------
\* Program constants
\* ------------------------------------------------------------------------

BB_LABEL == 3

Z_INC == 50

DROP_CAP == 50

OL_CAP == 10

GRAV_OL_CAP == 10

OSC_START == 2

\* ------------------------------------------------------------------------
\* Arithmetic and Python slicing
\* ------------------------------------------------------------------------

Max(a, b) == IF a >= b THEN a ELSE b

Min(a, b) == IF a <= b THEN a ELSE b

Abs(a) == IF a < 0 THEN -a ELSE a

\* a bound i of a Python slice over an axis of length n
PyIdx(i, n) == IF i < 0 THEN Max(i + n, 0) ELSE Min(i, n)

\* first index and length of the Python slice [a:b] over an axis of length n
SliceLo(a, b, n) == PyIdx(a, n)

SliceLen(a, b, n) == Max(PyIdx(b, n) - PyIdx(a, n), 0)

\* ------------------------------------------------------------------------
\* Masks
\* ------------------------------------------------------------------------

Cells(h, w) == (0 .. h - 1) \X (0 .. w - 1)

MkMask(h, w, F(_, _)) == [h |-> h, w |-> w, v |-> [p \in Cells(h, w) |-> F(p[1], p[2])]]

\* the nonzero cells of a mask (numpy.where)
Nz(m) == {p \in DOMAIN m.v : m.v[p] # 0}

\* m[r0 : r0 + nr, c0 : c0 + nc] for bounds already inside the mask
SubMask(m, r0, nr, c0, nc) ==
    [h |-> nr, w |-> nc,
     v |-> [p \in Cells(nr, nc) |-> m.v[<<r0 + p[1], c0 + p[2]>>]]]

\* m[a0 : b0, a1 : b1] with Python's slicing rules
PySlice2(m, a0, b0, a1, b1) ==
    SubMask(m, SliceLo(a0, b0, m.h), SliceLen(a0, b0, m.h),
               SliceLo(a1, b1, m.w), SliceLen(a1, b1, m.w))

\* label * mask.astype(bool)
Scale(m, label) ==
    [m EXCEPT !.v = [p \in DOMAIN m.v |-> IF m.v[p] # 0 THEN label ELSE 0]]

SetMin(S) == CHOOSE x \in S : \A y \in S : x <= y

SetMax(S) == CHOOSE x \in S : \A y \in S : x >= y

Rows(S) == {p[1] : p \in S}

Cols(S) == {p[2] : p \in S}

\* the crop every rasterizer ends with:
\*   coord = where(mask); dim = max - min + 1 on each axis
\*   mask[min0 : min0 + dim0 + 1, min1 : min1 + dim1 + 1]
CropToBox(mask) ==
    LET coord == Nz(mask)
        r0 == SetMin(Rows(coord))
        c0 == SetMin(Cols(coord))
        d0 == SetMax(Rows(coord)) - r0 + 1
        d1 == SetMax(Cols(coord)) - c0 + 1
    IN  PySlice2(mask, r0, r0 + d0 + 1, c0, c0 + d1 + 1)

\* ------------------------------------------------------------------------
\* Object2D: the rasterizers
\* ------------------------------------------------------------------------

\* skimage.draw.ellipse(r, c, r_radius, c_radius, shape) without rotation:
\* the cells of the shape with ((x-r)/r_radius)^2 + ((y-c)/c_radius)^2 < 1
EllipseCells(r, c, rr, cr, n) ==
    {p \in Cells(n, n) :
        (p[1] - r) * (p[1] - r) * cr * cr + (p[2] - c) * (p[2] - c) * rr * rr
            < rr * rr * cr * cr}

\* Object2D.create_ellipse: data of an ellipse with integer semi-axes
CreateEllipse(axes) ==
    LET m == Max(axes[1], axes[2])
        n == 2 * m + 1
        e == EllipseCells(m + 1, m + 1, axes[1], axes[2], n)
        mask == MkMask(n, n, LAMBDA r, c : IF <<r, c>> \in e THEN 1 ELSE 0)
    IN  CropToBox(mask)

\* int(sqrt(x)): the largest k with k * k <= x
ISqrt(x) == SetMax({k \in 0 .. x : k * k <= x})

\* Object2D.create_rectanguloid: data of a box of integer dimensions
CreateRectanguloid(dim) ==
    LET half == ISqrt(dim[1] * dim[1] + dim[2] * dim[2]) \div 2
        max_dim == 2 * half + 1
        s0 == (max_dim - 1) \div 2 - dim[1] \div 2 + 1
        s1 == (max_dim - 1) \div 2 - dim[2] \div 2 + 1
        mask == MkMask(max_dim, max_dim,
                       LAMBDA r, c : IF /\ r >= s0 /\ r < s0 + dim[1] + 1
                                        /\ c >= s1 /\ c < s1 + dim[2] + 1
                                     THEN 1 ELSE 0)
    IN  CropToBox(mask)

\* Object2D.create_sheet: a straight segment of dim[1] cells; the curve
\* points are its first and last cell, taken relative to their minimum
CreateSheetCurvePts(dim) == << <<0, 0>>, <<0, dim[2] - 1>> >>

CreateSheet(dim) == MkMask(1, dim[2], LAMBDA r, c : 1)

\* ------------------------------------------------------------------------
\* BaggageImage2D: geometry of the canvas
\* ------------------------------------------------------------------------

\* self.size
Size == Max(2 * BB_H + 2 * BB_T, NUM_SLICES)

Half == Size \div 2

InRing(x) == x >= Half - BB_H - BB_T /\ x < Half + BB_H + BB_T

InInner(x) == x >= Half - BB_H /\ x < Half + BB_H

\* self.boundary[r, c, z] with bag_b None and no prior image: the shell of
\* the cube of half width bb_h + bb_t around the cube of half width bb_h
Boundary(r, c, z) ==
    /\ InRing(r) /\ InRing(c) /\ InRing(z)
    /\ ~(InInner(r) /\ InInner(c) /\ InInner(z))

\* self.ws_bag[r, c, z] after construction
InitialCell(r, c, z) == IF Boundary(r, c, z) THEN BB_LABEL ELSE 0

\* self.ws_bag[r, c, z] for the layer lay of slice z
WsAt(lay, z, r, c) ==
    IF <<r, c>> \in DOMAIN lay THEN lay[<<r, c>>] ELSE InitialCell(r, c, z)

\* the layer lay of slice z after the cells of wr are assigned
Store(lay, z, wr) ==
    LET val(p) == IF p \in DOMAIN wr THEN wr[p] ELSE lay[p]
        keep == {p \in (DOMAIN lay) \cup (DOMAIN wr) :
                    val(p) # InitialCell(p[1], p[2], z)}
    IN  [p \in keep |-> val(p)]

\* lower_bound and upper_bound of _adjust_for_boundaries, and ground_y,
\* when bag_mask is None
LowerBound == Half - BB_H

UpperBound == Half + BB_H

GroundY == Half + BB_H

\* self.extents, the extent of the bounding box of bag_mask on each axis;
\* <<>> when bag_mask is None
VARIABLE extents

\* lower_bound and upper_bound of _adjust_for_boundaries on the axis i
LowerBoundOf(i) == IF extents = <<>> THEN LowerBound ELSE Half - extents[i] \div 2

UpperBoundOf(i) == IF extents = <<>> THEN UpperBound ELSE Half + extents[i] \div 2

\* ground_y of run_shape_grammar_overlap_and_gravity
GravityGroundY == IF extents = <<>> THEN GroundY ELSE Half + extents[1] \div 2

\* ------------------------------------------------------------------------
\* get_overlap, place_object_in_bag, _adjust_for_boundaries
\* ------------------------------------------------------------------------

\* get_overlap: obj_int, the object's data over the canvas region
\* [pose : pose + data.shape] with the boundary cells taken as free
ObjInt(lay, z, obj) ==
    LET p0 == obj.pose[1]
        p1 == obj.pose[2]
        lo0 == SliceLo(p0, p0 + obj.data.h, Size)
        n0 == SliceLen(p0, p0 + obj.data.h, Size)
        lo1 == SliceLo(p1, p1 + obj.data.w, Size)
        n1 == SliceLen(p1, p1 + obj.data.w, Size)
        bag_data(r, c) == IF Boundary(r, c, z) THEN 0 ELSE WsAt(lay, z, r, c)
    IN  MkMask(Min(n0, obj.data.h), Min(n1, obj.data.w),
               LAMBDA i, j : IF bag_data(lo0 + i, lo1 + j) # 0
                             THEN obj.data.v[<<i, j>>] ELSE 0)

\* get_overlap: out_flag
OverlapFlag(lay, z, obj) == Nz(ObjInt(lay, z, obj)) # {}

\* place_object_in_bag that writes nothing
PlaceNothing(lay, z, obj) == lay

\* place_object_in_bag: the layer after the nonzero cells of the object's
\* data are written over the region [pose : pose + data.shape]
PlaceObjectInBag(lay, z, obj) ==
    LET p0 == obj.pose[1]
        p1 == obj.pose[2]
        lo0 == SliceLo(p0, p0 + obj.data.h, Size)
        n0 == SliceLen(p0, p0 + obj.data.h, Size)
        lo1 == SliceLo(p1, p1 + obj.data.w, Size)
        n1 == SliceLen(p1, p1 + obj.data.w, Size)
        b_data == PySlice2(obj.data, 0, n0, 0, n1)
        nz == Nz(b_data)
        tgt == {<<lo0 + p[1], lo1 + p[2]>> : p \in nz}
    IN  Store(lay, z, [q \in tgt |-> b_data.v[<<q[1] - lo0, q[2] - lo1>>]])

\* one axis of _adjust_for_boundaries: pose, dim and the bounds of the
\* slice of data kept along that axis
AdjustAxis(pose, dim, n, lower_bound, upper_bound) ==
    LET lowhit == pose <= lower_bound
        pose1 == IF lowhit THEN lower_bound ELSE pose
        dim1 == IF lowhit THEN dim - (lower_bound - pose) ELSE dim
        \* data[-dim1:]
        lo1 == IF lowhit THEN SliceLo(-dim1, n, n) ELSE 0
        n1 == IF lowhit THEN SliceLen(-dim1, n, n) ELSE n
        uphit == pose1 + dim1 >= upper_bound
        dim2 == IF uphit THEN dim1 - (pose1 + dim1 - upper_bound) ELSE dim1
        \* data[:dim2]
        n2 == IF uphit THEN SliceLen(0, dim2, n1) ELSE n1
    IN  [pose |-> pose1, dim |-> dim2, lo |-> lo1, n |-> n2]

\* _adjust_for_boundaries that returns the object as it is
AdjustNothing(obj) == obj

AdjustForBoundaries(obj) ==
    LET x == AdjustAxis(obj.pose[1], obj.dim[1], obj.data.h,
                        LowerBoundOf(1), UpperBoundOf(1))
        y == AdjustAxis(obj.pose[2], obj.dim[2], obj.data.w,
                        LowerBoundOf(2), UpperBoundOf(2))
    IN  [obj EXCEPT !.pose = <<x.pose, y.pose>>,
                    !.dim = <<x.dim, y.dim>>,
                    !.data = SubMask(obj.data, x.lo, x.n, y.lo, y.n)]

\* ------------------------------------------------------------------------
\* run_shape_grammar_overlap: the overlap rule
\* ------------------------------------------------------------------------

\* two cells touch (skimage.measure.label with full connectivity)
Adjacent(p, q) == Abs(p[1] - q[1]) <= 1 /\ Abs(p[2] - q[2]) <= 1

RECURSIVE Grow(_, _)
Grow(S, cur) ==
    LET nxt == cur \cup {p \in S : \E q \in cur : Adjacent(p, q)}
    IN  IF nxt = cur THEN cur ELSE Grow(S, nxt)

\* position of a cell in the raster scan of an array of width w
Raster(p, w) == p[1] * w + p[2]

FirstCell(S, w) == CHOOSE p \in S : \A q \in S : Raster(p, w) <= Raster(q, w)

\* the connected components of the nonzero cells of a mask
Components(m) == {Grow(Nz(m), {p}) : p \in Nz(m)}

\* the first of the largest of the segments cs of an array of width w:
\* label() numbers the segments in raster order and argmax takes the first
\* of the largest
FirstLargest(cs, w) ==
    CHOOSE c \in cs :
        \A d \in cs :
            \/ Cardinality(c) > Cardinality(d)
            \/ /\ Cardinality(c) = Cardinality(d)
               /\ Raster(FirstCell(c, w), w) <= Raster(FirstCell(d, w), w)

\* the segment with the most cells
MaxSegment(m) == FirstLargest(Components(m), m.w)

\* the shift of the pose along one axis with the directions exchanged
AxisShiftSwapped(lo, hi, max_o) ==
    IF lo = 0 /\ hi = max_o THEN 0
    ELSE IF hi = max_o THEN hi - lo + 1
    ELSE IF lo = 0 THEN -(hi - lo + 1)
    ELSE 0

\* the shift of the pose along one axis: lo, hi the bounding box of the
\* segment on that axis, max_o the last index of obj_int on that axis
AxisShift(lo, hi, max_o) ==
    IF lo = 0 /\ hi = max_o THEN 0
    ELSE IF hi = max_o THEN -(hi - lo + 1)
    ELSE IF lo = 0 THEN hi - lo + 1
    ELSE 0

\* prev_pose = pose_list[-2].  pose_list is built by "pose_list =
\* [bag_obj.pose]" and "pose_list.append(bag_obj.pose)": every entry is the
\* pose array of the object itself, which the shifts change in place, so
\* the entry read is the current pose whatever the pose was when appended.
\* The model keeps in pose_list the pose at the time of each append.
PrevPose(pose_list, pose) == pose

OscCond(pose_list, pose) ==
    LET prev_pose == PrevPose(pose_list, pose)
    IN  pose[1] = prev_pose[1] /\ pose[2] = prev_pose[2]

\* a cap of one pass
OlCapOne == OSC_START - 1

\* a cap of two passes more
OlCapMore == OL_CAP + 2

\* the iteration cap of the overlap loop
OlCap == OL_CAP

\* st holds the locals of a call of run_shape_grammar_overlap and what it
\* did: the object, ol_ctr, row_shift, col_shift, pose_list, iters (the
\* passes through the loop body), osc (LATERAL_OSC_FLAG was set), ground
\* (the loop ended on GROUND_FLAG), osc_iter (the pass that first set the
\* flag, 0 for none), osc_pose (the pose at the end of that pass), escapes
\* (the number of times the escape shift was applied) and passes (for each
\* pass the pose before and after the shifts and the flags it ran with)
OverlapStart(obj, row_shift, col_shift) ==
    [obj |-> obj, ol_ctr |-> 0, iters |-> 0, row_shift |-> row_shift,
     col_shift |-> col_shift, osc |-> FALSE, ground |-> FALSE,
     pose_list |-> <<obj.pose>>, osc_iter |-> 0, osc_pose |-> obj.pose,
     escapes |-> 0, passes |-> <<>>]

\* the rest of the loop body after the shifts moved the pose to pose1:
\* the break on GROUND_FLAG, the append, the oscillation test, the count
OverlapStep(st, pose1, bbox_dim0) ==
    IF pose1[1] + st.obj.dim[1] >= GroundY
    THEN [st EXCEPT !.obj.pose = pose1, !.iters = st.iters + 1, !.ground = TRUE]
    ELSE IF st.ol_ctr >= OSC_START /\ OscCond(Append(st.pose_list, pose1), pose1)
    THEN [st EXCEPT !.obj.pose = <<pose1[1] - (bbox_dim0 + 1), pose1[2]>>,
                    !.ol_ctr = st.ol_ctr + 1,
                    !.iters = st.iters + 1,
                    !.row_shift = FALSE,
                    !.col_shift = FALSE,
                    !.osc = TRUE,
                    !.pose_list = Append(st.pose_list, pose1),
                    !.osc_iter = IF st.osc THEN st.osc_iter ELSE st.iters + 1,
                    !.osc_pose = IF st.osc THEN st.osc_pose
                                 ELSE <<pose1[1] - (bbox_dim0 + 1), pose1[2]>>,
                    !.escapes = st.escapes + 1]
    ELSE [st EXCEPT !.obj.pose = pose1,
                    !.ol_ctr = st.ol_ctr + 1,
                    !.iters = st.iters + 1,
                    !.pose_list = Append(st.pose_list, pose1)]

\* one pass of the body of "while OVERLAP_FLAG" for the overlap obj_int
OverlapBody(st, obj_int) ==
    LET seg == MaxSegment(obj_int)
        r_lo == SetMin(Rows(seg))
        r_hi == SetMax(Rows(seg))
        c_lo == SetMin(Cols(seg))
        c_hi == SetMax(Cols(seg))
        d0 == IF st.row_shift THEN AxisShift(r_lo, r_hi, obj_int.h - 1) ELSE 0
        d1 == IF st.col_shift THEN AxisShift(c_lo, c_hi, obj_int.w - 1) ELSE 0
        pass == [from |-> st.obj.pose,
                 to |-> <<st.obj.pose[1] + d0, st.obj.pose[2] + d1>>,
                 row_shift |-> st.row_shift, col_shift |-> st.col_shift]
    IN  OverlapStep([st EXCEPT !.passes = Append(st.passes, pass)],
                    <<st.obj.pose[1] + d0, st.obj.pose[2] + d1>>, r_hi - r_lo)

RECURSIVE OverlapLoop(_, _, _)
\* the head of "while OVERLAP_FLAG", with the two breaks of the body
OverlapWhile(lay, z, st) ==
    IF st.ground \/ st.ol_ctr = OlCap \/ ~OverlapFlag(lay, z, st.obj)
    THEN st
    ELSE OverlapLoop(lay, z, st)

OverlapLoop(lay, z, st) ==
    OverlapWhile(lay, z, OverlapBody(st, ObjInt(lay, z, st.obj)))

\* the overlap rule on the object lifted by a row before the first test
RunLifted(lay, z, obj, row_shift, col_shift) ==
    OverlapWhile(lay, z, OverlapStart([obj EXCEPT !.pose = <<obj.pose[1] - 1, obj.pose[2]>>],
                                      row_shift, col_shift))

\* run_shape_grammar_overlap(bag_obj, fix_obj=False, row_shift, col_shift):
\* the locals at the return; the loop was entered when iters > 0, and
\* pose_list[1] is the pose the call was made with
RunShapeGrammarOverlap(lay, z, obj, row_shift, col_shift) ==
    OverlapWhile(lay, z, OverlapStart(obj, row_shift, col_shift))

\* ------------------------------------------------------------------------
\* run_shape_grammar_overlap_and_gravity: objects other than sheets
\* ------------------------------------------------------------------------

\* the cap of the descent loop
DropCap == DROP_CAP

\* the cap on the calls of the overlap rule, counted over the whole descent
GravOlCap == GRAV_OL_CAP

\* g holds the locals of the call and what it did: the object, the layer,
\* drop_ctr, ol_ctr, LATERAL_OSC_FLAG (lateral), osc_cond, the results of
\* the calls of the overlap rule (calls), the number of commits, whether the
\* floor branch was taken (floor), whether the sheet was fitted (fitted) with
\* its leaves and the sheet as inflate_sheet returned it (inflated),
\* whether the call raised (err), the number of calls of the overlap rule
\* in the descent step that runs (step_calls) and the largest such number
\* over the steps (max_step_calls).

\* the locals at the entry of run_shape_grammar_overlap_and_gravity
GravityStart(lay, obj) ==
    [obj |-> obj, lay |-> lay, drop_ctr |-> 0, ol_ctr |-> 0,
     lateral |-> FALSE, osc_cond |-> FALSE, calls |-> <<>>,
     commits |-> 0, floor |-> FALSE, fitted |-> FALSE, leaves |-> <<>>,
     inflated |-> obj, err |-> FALSE, step_calls |-> 0, max_step_calls |-> 0,
     unadjusted |-> obj]

\* the body of "while OVERLAP_FLAG" of one descent step, res being what the
\* overlap rule returned.  osc_cond compares the pose with prev_pose, the
\* pose before the translation of the step
GravityOverlapBody(prev_pose, g, res) ==
    [g EXCEPT !.obj = res.obj,
              !.ol_ctr = g.ol_ctr + 1,
              !.lateral = g.lateral \/ res.osc,
              !.osc_cond = (res.obj.pose[1] = prev_pose[1] /\ res.obj.pose[2] = prev_pose[2]),
              !.calls = Append(g.calls, res),
              !.step_calls = g.step_calls + 1,
              !.max_step_calls = Max(g.max_step_calls, g.step_calls + 1)]

RECURSIVE GravityOverlapLoop(_, _, _)
\* the end of the body: the break on the cap, then the loop condition
GravityOverlapWhile(z, prev_pose, g) ==
    IF g.ol_ctr > GravOlCap THEN [g EXCEPT !.ol_ctr = 0]
    ELSE IF ~OverlapFlag(g.lay, z, g.obj) THEN g
    ELSE GravityOverlapLoop(z, prev_pose, g)

GravityOverlapLoop(z, prev_pose, g) ==
    GravityOverlapWhile(z, prev_pose,
        GravityOverlapBody(prev_pose, g,
                           RunShapeGrammarOverlap(g.lay, z, g.obj, TRUE, TRUE)))

\* the floor branch after the overlap rule returned res: the commit
GravityFloorCommit(z, g, res) ==
    [g EXCEPT !.obj = res.obj,
              !.lay = PlaceObjectInBag(g.lay, z, res.obj),
              !.lateral = g.lateral \/ res.osc,
              !.calls = Append(g.calls, res),
              !.commits = g.commits + 1,
              !.floor = TRUE,
              !.step_calls = g.step_calls + 1,
              !.max_step_calls = Max(g.max_step_calls, g.step_calls + 1)]

\* the floor branch for the object clamped to the floor: one column-only
\* pass of the overlap rule and a commit if the object overlaps
GravityFloorAt(z, g) ==
    IF OverlapFlag(g.lay, z, g.obj)
    THEN GravityFloorCommit(z, g, RunShapeGrammarOverlap(g.lay, z, g.obj, FALSE, TRUE))
    ELSE [g EXCEPT !.floor = TRUE]

\* the floor branch: pose[0] -= g_diff
GravityFloor(z, g) ==
    GravityFloorAt(z, [g EXCEPT !.obj.pose =
                          <<g.obj.pose[1] - (g.obj.pose[1] + g.obj.dim[1] - GravityGroundY),
                            g.obj.pose[2]>>])

RECURSIVE GravityLoop(_, _)
\* the end of a descent step, and the loop condition "drop_ctr < 50"
GravityWhile(z, g) ==
    IF g.osc_cond \/ g.lateral THEN g
    ELSE IF g.drop_ctr < DropCap THEN GravityLoop(z, g)
    ELSE g

\* a descent step of an object that is no sheet, after the translation
GravityStep(z, prev_pose, g) ==
    IF g.obj.pose[1] + g.obj.dim[1] >= GravityGroundY THEN GravityFloor(z, g)
    ELSE IF OverlapFlag(g.lay, z, g.obj)
    THEN GravityWhile(z, GravityOverlapLoop(z, prev_pose, g))
    ELSE GravityWhile(z, g)

\* the descent loop "while drop_ctr < 50" for an object that is no sheet
GravityLoop(z, g) ==
    GravityStep(z, g.obj.pose,
                [g EXCEPT !.obj.pose = <<g.obj.pose[1] + Z_INC, g.obj.pose[2]>>,
                          !.drop_ctr = g.drop_ctr + 1,
                          !.lateral = FALSE,
                          !.osc_cond = FALSE,
                          !.step_calls = 0])

\* ------------------------------------------------------------------------
\* The sheet rule: run_midpoint_recursion, generate_sheet_curve,
\* inflate_sheet
\* ------------------------------------------------------------------------

\* the depth after which the recursion is given up as not terminating
REC_DEPTH == 12

\* skimage.draw.line: the walk along the longer axis a with the error term
\* d; b is the other axis.  cell(a, b) orders the pair as (row, column)
RECURSIVE LineWalk(_, _, _, _, _, _, _, _, _)
LineWalk(i, a, b, d, da, db, sa, sb, steep) ==
    IF i = da THEN {}
    ELSE LET b1 == IF d >= 0 THEN b + sb ELSE b
             d1 == IF d >= 0 THEN d - 2 * da ELSE d
         IN  {IF steep THEN <<a, b>> ELSE <<b, a>>}
                \cup LineWalk(i + 1, a + sa, b1, d1 + 2 * db, da, db, sa, sb, steep)

\* the cells of line(r0, c0, r1, c1)
Line(p, q) ==
    LET dr == Abs(q[1] - p[1])
        dc == Abs(q[2] - p[2])
        sr == IF q[1] - p[1] > 0 THEN 1 ELSE -1
        sc == IF q[2] - p[2] > 0 THEN 1 ELSE -1
    IN  {q} \cup (IF dr > dc
                  THEN LineWalk(0, p[1], p[2], 2 * dc - dr, dr, dc, sr, sc, TRUE)
                  ELSE LineWalk(0, p[2], p[1], 2 * dr - dc, dc, dr, sc, sr, FALSE))

\* np.any(ws_bag[:, :, slice_no][line_pts])
LineOverlap(lay, z, p, q) == \E x \in Line(p, q) : WsAt(lay, z, x[1], x[2]) # 0

\* the rows of column col that hold 0
FreeRows(lay, z, col) == {r \in 0 .. Size - 1 : WsAt(lay, z, r, col) = 0}

\* row_ind[argmin(abs(row_ind - row))]: the free row nearest to row, the
\* smaller one when two are as near
NearestFree(lay, z, col, row) ==
    LET free == FreeRows(lay, z, col)
    IN  CHOOSE r \in free :
            \A x \in free : \/ Abs(r - row) < Abs(x - row)
                            \/ (Abs(r - row) = Abs(x - row) /\ r <= x)

\* np.average(pts, axis=0).astype(int) for points without negative entries
MidPt(p, q) == <<(p[1] + q[1]) \div 2, (p[2] + q[2]) \div 2>>

\* run_midpoint_recursion(simplex_pts) for the integer points p, q.  The
\* result: leaves, the sub-segments in the order of the stacked array, and
\* err, set when the call raises (no free cell in the column of a midpoint)
\* or does not end within the depth bound
\* the segment handed back as it came, whatever lies on it
RunMidpointFlat(lay, z, p, q, depth) == [leaves |-> << <<p, q>> >>, err |-> FALSE]

RECURSIVE RunMidpointRecursion(_, _, _, _, _)
RunMidpointRecursion(lay, z, p, q, depth) ==
    IF ~LineOverlap(lay, z, p, q) THEN [leaves |-> << <<p, q>> >>, err |-> FALSE]
    ELSE LET m == MidPt(p, q)
         IN  IF FreeRows(lay, z, m[2]) = {} \/ depth = 0
             THEN [leaves |-> <<>>, err |-> TRUE]
             ELSE LET mid_pt == <<NearestFree(lay, z, m[2], m[1]), m[2]>>
                  IN  IF mid_pt = p \/ mid_pt = q
                      THEN [leaves |-> << <<p, q>> >>, err |-> FALSE]
                      ELSE LET l1 == RunMidpointRecursion(lay, z, p, mid_pt, depth - 1)
                               l2 == RunMidpointRecursion(lay, z, q, mid_pt, depth - 1)
                           IN  [leaves |-> l1.leaves \o l2.leaves,
                                err |-> l1.err \/ l2.err]

\* np.clip(x, 0, 2 * bb_h - 1)
Clip(x) == Max(0, Min(x, 2 * BB_H - 1))

\* generate_sheet_curve: an endpoint in canvas coordinates, moved to the
\* nearest free cell of its column when it lies on a cell with a value > 0
SheetEndpoint(lay, z, obj, k) ==
    LET pt == <<Clip(obj.curve_pts[k][1] + obj.pose[1]),
                Clip(obj.curve_pts[k][2] + obj.pose[2])>>
    IN  IF WsAt(lay, z, pt[1], pt[2]) > 0
        THEN IF FreeRows(lay, z, pt[2]) = {}
             THEN [pt |-> pt, err |-> TRUE]
             ELSE [pt |-> <<NearestFree(lay, z, pt[2], pt[1]), pt[2]>>, err |-> FALSE]
        ELSE [pt |-> pt, err |-> FALSE]

\* generate_sheet_curve, the end: the curve drawn along the leaves, the
\* pose at its corner (dim is not assigned)
SheetCurveData(obj, leaves) ==
    LET pts == UNION {{leaves[i][1], leaves[i][2]} : i \in 1 .. Len(leaves)}
        cpt_row_min == SetMin(Rows(pts))
        cpt_col_min == SetMin(Cols(pts))
        drawn == UNION {Line(leaves[i][1], leaves[i][2]) : i \in 1 .. Len(leaves)}
        bin_data == MkMask(SetMax(Rows(pts)) - cpt_row_min + 1,
                           SetMax(Cols(pts)) - cpt_col_min + 1,
                           LAMBDA r, c : IF <<r + cpt_row_min, c + cpt_col_min>> \in drawn
                                         THEN 1 ELSE 0)
    IN  [obj |-> [obj EXCEPT !.pose = <<cpt_row_min, cpt_col_min>>,
                             !.data = bin_data],
         leaves |-> leaves, err |-> FALSE]

\* generate_sheet_curve after the two recursions returned f1 and f2
SheetCurveOf(obj, err, f1, f2) ==
    IF err \/ f1.err \/ f2.err THEN [obj |-> obj, leaves |-> <<>>, err |-> TRUE]
    ELSE SheetCurveData(obj, f1.leaves \o f2.leaves)

\* generate_sheet_curve for the endpoints e1 and e2.  The midpoint is a
\* float pair, cut to integers by astype(int) at the entry of
\* run_midpoint_recursion
SheetCurveFrom(lay, z, obj, e1, e2) ==
    SheetCurveOf(obj, e1.err \/ e2.err,
                 RunMidpointRecursion(lay, z, e1.pt, MidPt(e1.pt, e2.pt), REC_DEPTH),
                 RunMidpointRecursion(lay, z, e2.pt, MidPt(e1.pt, e2.pt), REC_DEPTH))

\* generate_sheet_curve: the object with its new pose and data, the leaves
\* in canvas coordinates, and err
GenerateSheetCurve(lay, z, obj) ==
    SheetCurveFrom(lay, z, obj, SheetEndpoint(lay, z, obj, 1),
                   SheetEndpoint(lay, z, obj, 2))

\* skimage.morphology.disk(r): the offsets of the structuring element
Disk(r) == {d \in (-r .. r) \X (-r .. r) : d[1] * d[1] + d[2] * d[2] <= r * r}

\* binary_dilation(data, disk(r)): same extent as data
BinaryDilation(m, r) ==
    MkMask(m.h, m.w,
           LAMBDA i, j : IF \E d \in Disk(r) :
                               /\ <<i + d[1], j + d[2]>> \in DOMAIN m.v
                               /\ m.v[<<i + d[1], j + d[2]>>] # 0
                         THEN 1 ELSE 0)

\* inflate_sheet that keeps the dilated cells that overlap
InflateKeepOverlap(lay, z, obj) ==
    [obj EXCEPT !.data = Scale(BinaryDilation(obj.data, obj.axes[1]), obj.label)]

\* inflate_sheet: dilate to the sheet thickness, clear the cells that
\* overlap, and scale by the label
InflateSheet(lay, z, obj) ==
    LET dil == [obj EXCEPT !.data = BinaryDilation(obj.data, obj.axes[1])]
        overlap_vol == ObjInt(lay, z, dil)
        cleared == [dil.data EXCEPT
                       !.v = [p \in DOMAIN dil.data.v |->
                                 IF p \in Nz(overlap_vol) THEN 0 ELSE dil.data.v[p]]]
    IN  [obj EXCEPT !.data = Scale(cleared, obj.label)]

\* ------------------------------------------------------------------------
\* run_shape_grammar_overlap_and_gravity: sheets, and the whole rule
\* ------------------------------------------------------------------------

\* COLL_FLAG: the curve points themselves index the canvas
SheetCollFlag(lay, z, obj) ==
    \/ WsAt(lay, z, obj.curve_pts[1][1], obj.curve_pts[1][2]) > 0
    \/ WsAt(lay, z, obj.curve_pts[2][1], obj.curve_pts[2][2]) > 0

\* the fitting of a sheet, the end: the commit of the inflated sheet
SheetCommit(z, g, leaves, inf) ==
    [g EXCEPT !.obj = inf, !.lay = PlaceObjectInBag(g.lay, z, inf),
              !.commits = g.commits + 1, !.fitted = TRUE, !.leaves = leaves,
              !.inflated = inf]

\* the fitting of a sheet after generate_sheet_curve returned gen
SheetFitGen(z, g, gen) ==
    IF gen.err THEN [g EXCEPT !.err = TRUE]
    ELSE SheetCommit(z, g, gen.leaves, InflateSheet(g.lay, z, gen.obj))

\* the curve points pulled above the floor
SheetPulled(obj) ==
    LET x_dist == [i \in 1 .. 2 |-> obj.pose[1] + obj.curve_pts[i][1]]
        ground_diff == Max(Max(x_dist[1], x_dist[2]) - GravityGroundY, 0)
    IN  [i \in 1 .. 2 |->
            IF x_dist[i] > GravityGroundY
            THEN <<obj.curve_pts[i][1] - ground_diff, obj.curve_pts[i][2]>>
            ELSE obj.curve_pts[i]]

\* the fitting of a sheet whose curve points are pulled above the floor
SheetFitAt(z, g) == SheetFitGen(z, g, GenerateSheetCurve(g.lay, z, g.obj))

\* the fitting of a sheet: pull the curve points above the floor, generate
\* the curve, inflate, commit
SheetFit(z, g) == SheetFitAt(z, [g EXCEPT !.obj.curve_pts = SheetPulled(g.obj)])

RECURSIVE SheetLoop(_, _)
\* a descent step of a sheet, after the translation
SheetStep(z, g) ==
    IF \/ \E i \in 1 .. 2 : g.obj.pose[1] + g.obj.curve_pts[i][1] >= GravityGroundY
       \/ SheetCollFlag(g.lay, z, g.obj)
    THEN SheetFit(z, g)
    ELSE IF g.drop_ctr < DropCap THEN SheetLoop(z, g)
    ELSE g

\* the descent loop for a sheet
SheetLoop(z, g) ==
    SheetStep(z, [g EXCEPT !.obj.pose = <<g.obj.pose[1] + Z_INC, g.obj.pose[2]>>,
                           !.drop_ctr = g.drop_ctr + 1,
                           !.lateral = FALSE,
                           !.osc_cond = FALSE])

\* the end of run_shape_grammar_overlap_and_gravity: the commit of the
\* object adj that _adjust_for_boundaries returned; unadjusted keeps the
\* object it was given
GravityCommit(z, g, adj) ==
    [g EXCEPT !.obj = adj, !.lay = PlaceObjectInBag(g.lay, z, adj),
              !.commits = g.commits + 1, !.unadjusted = g.obj]

\* the end of run_shape_grammar_overlap_and_gravity for the locals g the
\* descent loop ended with
GravityEnd(z, g) ==
    IF g.err THEN g ELSE GravityCommit(z, g, AdjustForBoundaries(g.obj))

\* run_shape_grammar_overlap_and_gravity(bag_obj): the descent, then
\* _adjust_for_boundaries and the commit
RunShapeGrammarOverlapAndGravity(lay, z, obj) ==
    GravityEnd(z, IF obj.shape = "S" THEN SheetLoop(z, GravityStart(lay, obj))
                  ELSE GravityLoop(z, GravityStart(lay, obj)))

\* ------------------------------------------------------------------------
\* Object2D: construction and the liquid container rule
\* ------------------------------------------------------------------------

\* Object2D.__init__: the instance for the descriptor d (shape, geom, liquid
\* parameters), the label and the pose.  lqd_level is the fraction <<n, d>>
Object2D(d, label, obj_pose) ==
    LET data == IF d.shape = "E" THEN CreateEllipse(d.geom)
                ELSE IF d.shape = "B" THEN CreateRectanguloid(d.geom)
                ELSE CreateSheet(d.geom)
    IN  [shape |-> d.shape,
         label |-> label,
         pose |-> obj_pose,
         dim |-> <<data.h, data.w>>,
         axes |-> d.geom,
         curve_pts |-> IF d.shape = "S" THEN CreateSheetCurvePts(d.geom) ELSE <<>>,
         data |-> Scale(data, label),
         lqd_flag |-> d.lqd_flag,
         cntr_thickness |-> d.cntr_thickness,
         lqd_level |-> d.lqd_level,
         lqd_label |-> d.lqd_label]

\* binary_erosion(bin_data, selem=disk(r)): cells beyond the array count as
\* set (border_value=True)
BinaryErosion(m, r) ==
    MkMask(m.h, m.w,
           LAMBDA i, j : IF \A d \in Disk(r) :
                               \/ <<i + d[1], j + d[2]>> \notin DOMAIN m.v
                               \/ m.v[<<i + d[1], j + d[2]>>] # 0
                         THEN 1 ELSE 0)

\* the void marker
VOID == 0 - 1

\* apply_liquid_container_rule that marks the whole cavity void
ApplyLiquidVoid(obj) ==
    [obj EXCEPT !.data.v =
        [p \in DOMAIN obj.data.v |->
            IF p \in Nz(BinaryErosion(obj.data, obj.cntr_thickness)) THEN VOID
            ELSE obj.data.v[p]]]

\* apply_liquid_container_rule that writes the void marker before it looks
\* at the rows of the cavity: the footprint outside the cavity is marked
ApplyLiquidEarlyWrite(obj) ==
    [obj EXCEPT !.data.v =
        [p \in DOMAIN obj.data.v |->
            IF p \in Nz(BinaryErosion(obj.data, obj.cntr_thickness)) THEN obj.lqd_label
            ELSE IF obj.data.v[p] # 0 THEN VOID
            ELSE 0]]

\* apply_liquid_container_rule: the data after the rule; unchanged when the
\* cavity is empty (the exception is swallowed)
ApplyLiquidContainerRule(obj) ==
    LET bin_data == MkMask(obj.data.h, obj.data.w,
                           LAMBDA i, j : IF obj.label = 0 THEN 0
                                         ELSE obj.data.v[<<i, j>>] \div obj.label)
        eroded_img == BinaryErosion(bin_data, obj.cntr_thickness)
        e_row == Rows(Nz(eroded_img))
        e_fill == ((obj.lqd_level[2] - obj.lqd_level[1]) * (SetMax(e_row) - SetMin(e_row)))
                      \div obj.lqd_level[2]
        filled == {p \in Nz(eroded_img) : p[1] >= e_fill}
    IN  IF e_row = {} THEN obj
        ELSE [obj EXCEPT !.data.v =
                 [p \in DOMAIN obj.data.v |->
                     IF p \in filled THEN obj.lqd_label
                     ELSE IF p \in Nz(eroded_img) THEN VOID
                     ELSE obj.data.v[p]]]

\* ------------------------------------------------------------------------
\* add_object
\* ------------------------------------------------------------------------

\* the branch without rules:
\*   ws_bag[pose[0] : pose[0] + dim[0] // 2, pose[1] : pose[1] + dim[1] // 2,
\*          slice_no] = data
\* numpy assigns when each extent of data equals that of the region or is 1,
\* and raises otherwise
StampRows(obj) == SliceLen(obj.pose[1], obj.pose[1] + obj.dim[1] \div 2, Size)

StampCols(obj) == SliceLen(obj.pose[2], obj.pose[2] + obj.dim[2] \div 2, Size)

StampRaises(obj) ==
    \/ ~(obj.data.h = StampRows(obj) \/ obj.data.h = 1)
    \/ ~(obj.data.w = StampCols(obj) \/ obj.data.w = 1)

StampObject(lay, z, obj) ==
    LET lo0 == SliceLo(obj.pose[1], obj.pose[1] + obj.dim[1] \div 2, Size)
        lo1 == SliceLo(obj.pose[2], obj.pose[2] + obj.dim[2] \div 2, Size)
        tgt == {<<lo0 + p[1], lo1 + p[2]>> : p \in Cells(StampRows(obj), StampCols(obj))}
        src(q) == <<IF obj.data.h = 1 THEN 0 ELSE q[1] - lo0,
                    IF obj.data.w = 1 THEN 0 ELSE q[2] - lo1>>
    IN  Store(lay, z, [q \in tgt |-> obj.data.v[src(q)]])

\* add_object with the overlap rule only: run_shape_grammar_overlap with
\* fix_obj=True, res being the locals when the rule commits
AddWithOverlap(lay, z, g, res) ==
    [g EXCEPT !.obj = res.obj, !.lay = PlaceObjectInBag(lay, z, res.obj),
              !.lateral = res.osc, !.calls = <<res>>, !.commits = 1]

\* add_object without rules
AddWithoutRules(lay, z, g, obj) ==
    IF StampRaises(obj) THEN [g EXCEPT !.err = TRUE]
    ELSE [g EXCEPT !.lay = StampObject(lay, z, obj), !.commits = 1]

\* add_object(bag_obj, with_overlap_rule, with_gravity_rule): the record of
\* the call, as for run_shape_grammar_overlap_and_gravity
AddObjectCall(lay, z, obj, with_overlap_rule, with_gravity_rule) ==
    IF with_gravity_rule THEN RunShapeGrammarOverlapAndGravity(lay, z, obj)
    ELSE IF with_overlap_rule
    THEN AddWithOverlap(lay, z, GravityStart(lay, obj),
                        RunShapeGrammarOverlap(lay, z, obj, TRUE, TRUE))
    ELSE AddWithoutRules(lay, z, GravityStart(lay, obj), obj)

\* ------------------------------------------------------------------------
\* The inputs of a run
\* ------------------------------------------------------------------------

\* the layer of a slice nothing was written to
EmptyLayer == [p \in {} |-> 0]

\* create_random_object_list: start_label, end_label, pose_range, pose_diff
StartLabel == BB_LABEL + 1

EndLabel == StartLabel + NUM_OBJECTS

PoseRange == <<Half - BB_H, Half + BB_H - MIN_DIM * 2>>

PoseDiff == PoseRange[2] - PoseRange[1]

\* the row of every spawn pose: int(pose_range[0] + max_dim)
SpawnRow == PoseRange[1] + MAX_DIM

\* the columns int(rand() * pose_diff + pose_range[0]) taken by the model:
\* the first SPAWN_COLS columns of the range
SpawnCols == {PoseRange[1] + i : i \in 0 .. Min(SPAWN_COLS, PoseDiff) - 1}

NoLiquid == [lqd_flag |-> FALSE, cntr_thickness |-> 0, lqd_level |-> <<0, 1>>]

\* the shape descriptors the object lists are drawn from
Catalog ==
    { [shape |-> "E", geom |-> <<2, 2>>] @@ NoLiquid,
      [shape |-> "E", geom |-> <<1, 2>>] @@ NoLiquid,
      [shape |-> "E", geom |-> <<2, 1>>] @@ NoLiquid,
      [shape |-> "B", geom |-> <<2, 2>>] @@ NoLiquid,
      [shape |-> "E", geom |-> <<2, 2>>, lqd_flag |-> TRUE, cntr_thickness |-> 1,
       lqd_level |-> <<1, 2>>],
      [shape |-> "S", geom |-> <<2, 3>>] @@ NoLiquid }

\* the number of liquid containers among the first i descriptors
RECURSIVE LiquidsBefore(_, _)
LiquidsBefore(ds, i) ==
    IF i = 0 THEN 0
    ELSE LiquidsBefore(ds, i - 1) + (IF ds[i].lqd_flag THEN 1 ELSE 0)

\* the object list create_random_object_list builds for the descriptors ds:
\* labels from start_label, liquid labels from end_label
ObjectList(ds) ==
    [i \in 1 .. NUM_OBJECTS |->
        Object2D(ds[i] @@ [lqd_label |-> EndLabel + LiquidsBefore(ds, i - 1)],
                 StartLabel + i - 1,
                 <<SpawnRow, PoseRange[1]>>)]

Range(f) == {f[i] : i \in DOMAIN f}

\* the orders rdm.shuffle can leave a list of n entries in
Perms(n) == {f \in [1 .. n -> 1 .. n] : Range(f) = 1 .. n}

\* ------------------------------------------------------------------------
\* State
\* ------------------------------------------------------------------------

VARIABLES
    ws_bag,            \* self.ws_bag, a layer per slice
    heap,              \* the Object2D instances, by identity
    obj_list,          \* the identities of the argument obj_list
    current_obj_list,  \* the identities of the clones of the slice, in order
    with_shape_grammar,\* the argument of create_baggage_image
    slice_no,          \* self.slice_no
    slice,             \* the loop variable of the slice loop
    k,                 \* the index of the object loop that runs
    pc,                \* where create_baggage_image is
    lateral_osc_flag,  \* self.LATERAL_OSC_FLAG
    lqd_count,         \* self.lqd_count, the next liquid label
    target_counter,    \* target_counter of create_random_object_list
    target_dict,       \* the argument target_dict of create_random_object_list
    param_file,        \* self.param_file, the metadata records of the objects
    spawn_pose,        \* history: the pose each clone of the slice was given
    last               \* history: what the last call did

vars == <<ws_bag, heap, obj_list, current_obj_list, with_shape_grammar,
          slice_no, slice, k, pc, lateral_osc_flag, lqd_count, target_counter,
          target_dict, param_file, spawn_pose, last, extents>>

\* target_dict as create_random_object_list takes it by default: num_range
\* None (the empty tuple here)
NoTargets == [num_range |-> <<>>, is_liquid |-> FALSE]

Slices == 0 .. NUM_SLICES - 1

NoCall == [kind |-> "none"]

\* the record kept of a call on the object id of slice z.  kind tells the
\* call: "gravity", "overlap" and "stamp" for add_object with the gravity
\* rule, with the overlap rule only and without rules, "resolve" for
\* run_shape_grammar_overlap with fix_obj=False
CallRecord(kind, z, id, before, obj_in, g) ==
    [kind |-> kind, z |-> z, id |-> id, before |-> before, obj_in |-> obj_in,
     obj |-> g.obj, drop_ctr |-> g.drop_ctr, calls |-> g.calls,
     commits |-> g.commits, floor |-> g.floor, fitted |-> g.fitted,
     leaves |-> g.leaves, inflated |-> g.inflated, lateral |-> g.lateral,
     max_step_calls |-> g.max_step_calls, unadjusted |-> g.unadjusted,
     err |-> g.err]

Init ==
    /\ \E ds \in [1 .. NUM_OBJECTS -> Catalog] :
          /\ heap = ObjectList(ds)
          /\ lqd_count = EndLabel + LiquidsBefore(ds, NUM_OBJECTS)
    /\ target_counter = 0
    /\ target_dict = NoTargets
    /\ extents = <<>>
    /\ param_file = <<>>
    /\ obj_list = [i \in 1 .. NUM_OBJECTS |-> i]
    /\ with_shape_grammar \in BOOLEAN
    /\ ws_bag = [z \in Slices |-> EmptyLayer]
    /\ current_obj_list = <<>>
    /\ slice_no = 0
    /\ slice = 0
    /\ k = 0
    /\ pc = "slice"
    /\ lateral_osc_flag = FALSE
    /\ spawn_pose = <<>>
    /\ last = NoCall

\* ------------------------------------------------------------------------
\* create_baggage_image
\* ------------------------------------------------------------------------

\* a copy that is the object itself
CloneAlias(x, fresh) == x

\* ccfunc(x): the identity of the deep copy of x, fresh being unused
CloneId(x, fresh) == fresh

\* the head of the slice loop: clone the objects, give each clone a spawn
\* pose, shuffle
BeginSlice ==
    /\ pc = "slice"
    /\ \E cols \in [1 .. NUM_OBJECTS -> SpawnCols], perm \in Perms(NUM_OBJECTS) :
        LET cl == [i \in 1 .. NUM_OBJECTS |-> CloneId(obj_list[i], NUM_OBJECTS + i)]
            src(id) == CHOOSE i \in 1 .. NUM_OBJECTS : cl[i] = id
        IN  /\ heap' = [id \in Range(obj_list) \cup Range(cl) |->
                          IF id \in Range(cl)
                          THEN [heap[obj_list[src(id)]] EXCEPT
                                   !.pose = <<SpawnRow, cols[src(id)]>>]
                          ELSE heap[id]]
            /\ current_obj_list' = [j \in 1 .. NUM_OBJECTS |-> cl[perm[j]]]
            /\ spawn_pose' = [j \in 1 .. NUM_OBJECTS |-> <<SpawnRow, cols[perm[j]]>>]
    /\ k' = 1
    /\ pc' = "place"
    /\ UNCHANGED <<ws_bag, obj_list, with_shape_grammar, slice_no, slice,
                   lateral_osc_flag, last,
                   lqd_count, target_counter, target_dict, extents, param_file>>

\* the heap after a call that changes the object id and moves every other
\* clone of the slice by a column
HeapAfterPush(h, id, obj) ==
    [i \in DOMAIN h |->
        IF i = id THEN obj
        ELSE IF i \in Range(current_obj_list)
        THEN [h[i] EXCEPT !.pose = <<h[i].pose[1], h[i].pose[2] + 1>>]
        ELSE h[i]]

\* the heap after add_object changed the object id
HeapAfter(h, id, obj) == [h EXCEPT ![id] = obj]

\* the layers after a call wrote the layer lay of slice z
LayersAfter(ws, z, lay) == [ws EXCEPT ![z] = lay]

\* the state after add_object on the object id returned with the record g
AddObjectDone(id, g) ==
    /\ slice_no' = slice
    /\ heap' = HeapAfter(heap, id, g.obj)
    /\ ws_bag' = LayersAfter(ws_bag, slice, g.lay)
    /\ lateral_osc_flag' = IF with_shape_grammar THEN g.lateral ELSE lateral_osc_flag
    /\ last' = CallRecord(IF with_shape_grammar THEN "gravity" ELSE "stamp",
                           slice, id, ws_bag[slice], heap[id], g)
    /\ pc' = IF g.err THEN "raised"
             ELSE IF k < NUM_OBJECTS THEN "place" ELSE "liquid"
    /\ k' = IF g.err THEN k ELSE IF k < NUM_OBJECTS THEN k + 1 ELSE 1

\* one pass of the placement loop: add_object on the k-th clone
AddObject ==
    /\ pc = "place"
    /\ AddObjectDone(current_obj_list[k],
                     AddObjectCall(ws_bag[slice], slice, heap[current_obj_list[k]],
                                   FALSE, with_shape_grammar))
    /\ UNCHANGED <<obj_list, current_obj_list, with_shape_grammar, slice, spawn_pose,
                   lqd_count, target_counter, target_dict, extents, param_file>>

\* the end of a pass of the liquid loop
LiquidNext ==
    /\ k' = IF k < NUM_OBJECTS THEN k + 1 ELSE 0
    /\ slice' = IF k < NUM_OBJECTS THEN slice ELSE slice + 1
    /\ pc' = IF k < NUM_OBJECTS THEN "liquid"
             ELSE IF slice + 1 < NUM_SLICES THEN "slice" ELSE "final"

\* one pass of the liquid loop on a liquid container: the rule, then the
\* commit
LiquidFill ==
    /\ pc = "liquid"
    /\ heap[current_obj_list[k]].lqd_flag
    /\ LET id == current_obj_list[k]
           obj == ApplyLiquidContainerRule(heap[id])
       IN  /\ heap' = HeapAfter(heap, id, obj)
           /\ ws_bag' = LayersAfter(ws_bag, slice_no,
                                    PlaceObjectInBag(ws_bag[slice_no], slice_no, obj))
           /\ last' = [kind |-> "liquid", z |-> slice_no, id |-> id,
                       before |-> ws_bag[slice_no], obj_in |-> heap[id], obj |-> obj]
    /\ LiquidNext
    /\ UNCHANGED <<obj_list, current_obj_list, with_shape_grammar, slice_no,
                   lateral_osc_flag, spawn_pose,
                   lqd_count, target_counter, target_dict, extents, param_file>>

\* one pass of the liquid loop on any other object
LiquidSkip ==
    /\ pc = "liquid"
    /\ ~heap[current_obj_list[k]].lqd_flag
    /\ LiquidNext
    /\ UNCHANGED <<ws_bag, heap, obj_list, current_obj_list, with_shape_grammar,
                   slice_no, lateral_osc_flag, spawn_pose, last,
                   lqd_count, target_counter, target_dict, extents, param_file>>

\* a canvas whose negative cells are left as they are
ClampNothing(ws) == ws

\* after the slice loop: self.ws_bag[self.ws_bag < 0] = 0
ClampNegative(ws) ==
    [z \in DOMAIN ws |->
        Store(ws[z], z, [p \in {q \in DOMAIN ws[z] : ws[z][q] < 0} |-> 0])]

\* self.img_ctr, which get_bag_background returns: the centre of an image
\* of the size of the canvas
ImgCtr == <<Half, Half>>

\* curr_obj['geom']['center'] of the metadata record of the object obj
MetadataCentre(obj) ==
    <<ImgCtr[1] - Size \div 2 + obj.pose[1] + obj.dim[1] \div 2,
      ImgCtr[2] - Size \div 2 + obj.pose[2] + obj.dim[2] \div 2>>

\* the records "for bag_obj in obj_list" appends to param_file, h being the
\* heap: the label of the descriptor and the centre
ParamFile(h, list) ==
    [j \in DOMAIN list |->
        [label |-> h[list[j]].label, shape |-> h[list[j]].shape,
         center |-> MetadataCentre(h[list[j]])]]

\* after the slice loop: the negative cells are cleared and the metadata
\* records are written
Finalize ==
    /\ pc = "final"
    /\ ws_bag' = ClampNegative(ws_bag)
    /\ param_file' = ParamFile(heap, obj_list)
    /\ pc' = "done"
    /\ UNCHANGED <<heap, obj_list, current_obj_list, with_shape_grammar,
                   slice_no, slice, k, lateral_osc_flag, spawn_pose, last,
                   lqd_count, target_counter, target_dict, extents>>

Next == BeginSlice \/ AddObject \/ LiquidFill \/ LiquidSkip \/ Finalize

Spec == Init /\ [][Next]_vars

\* ------------------------------------------------------------------------
\* A client that calls the methods of BaggageImage2D itself
\* ------------------------------------------------------------------------

\* the number of calls the client makes
MAX_CALLS == 2

\* the descriptors of the objects the client builds: ellipses of one and of
\* several cells, a box taller than the overlap rule can climb in its
\* passes, and a sheet
ClientCatalog ==
    { [shape |-> "E", geom |-> <<2, 2>>] @@ NoLiquid,
      [shape |-> "E", geom |-> <<1, 2>>] @@ NoLiquid,
      [shape |-> "E", geom |-> <<1, 1>>] @@ NoLiquid,
      [shape |-> "B", geom |-> <<OL_CAP + 2, 1>>] @@ NoLiquid,
      [shape |-> "S", geom |-> <<2, 3>>] @@ NoLiquid }

\* the poses the client gives them: at the spawn row, and near the floor
ClientPoses == {SpawnRow, GroundY - 4} \X SpawnCols

\* the end points the client hands to run_midpoint_recursion
ClientPoints == {GroundY - 4, GroundY - 2} \X {LowerBound, LowerBound + 3}

\* the object the client builds for its call number n
ClientObject(d, n, pose) == Object2D(d @@ [lqd_label |-> EndLabel], StartLabel + n, pose)

\* the client sets slice_no; nothing else is changed after construction
InitClient ==
    /\ heap = <<>>
    /\ obj_list = <<>>
    /\ with_shape_grammar = TRUE
    /\ ws_bag = [z \in Slices |-> EmptyLayer]
    /\ current_obj_list = <<>>
    /\ slice_no \in Slices
    /\ slice = 0
    /\ k = 0
    /\ pc = "client"
    /\ lateral_osc_flag = FALSE
    /\ lqd_count = EndLabel
    /\ target_counter = 0
    /\ target_dict = NoTargets
    /\ extents = <<>>
    /\ param_file = <<>>
    /\ spawn_pose = <<>>
    /\ last = NoCall

\* the state after a call on the object obj returned with the record g
ClientDone(kind, obj, g) ==
    /\ heap' = Append(heap, g.obj)
    /\ ws_bag' = LayersAfter(ws_bag, slice_no, g.lay)
    /\ lateral_osc_flag' = IF kind = "stamp" THEN lateral_osc_flag ELSE g.lateral
    /\ last' = CallRecord(kind, slice_no, k + 1, ws_bag[slice_no], obj, g)
    /\ pc' = IF g.err THEN "raised" ELSE "client"
    /\ k' = k + 1
    /\ UNCHANGED <<obj_list, current_obj_list, with_shape_grammar, slice_no, slice,
                   spawn_pose,
                   lqd_count, target_counter, target_dict, extents, param_file>>

\* add_object(bag_obj, with_overlap_rule, with_gravity_rule)
ClientAddObject ==
    /\ pc = "client"
    /\ k < MAX_CALLS
    /\ \E d \in ClientCatalog, pose \in ClientPoses, rule \in {"gravity", "overlap", "stamp"} :
          ClientDone(rule, ClientObject(d, k, pose),
                     AddObjectCall(ws_bag[slice_no], slice_no, ClientObject(d, k, pose),
                                   rule = "overlap", rule = "gravity"))

\* run_shape_grammar_overlap with fix_obj=False, res being the locals at
\* the return: nothing is committed
OverlapOnly(lay, g, res) ==
    [g EXCEPT !.obj = res.obj, !.lateral = res.osc, !.calls = <<res>>]

\* run_shape_grammar_overlap(bag_obj, fix_obj=False, row_shift, col_shift)
ClientOverlap ==
    /\ pc = "client"
    /\ k < MAX_CALLS
    /\ \E d \in ClientCatalog, pose \in ClientPoses, row_shift \in BOOLEAN :
          ClientDone("resolve", ClientObject(d, k, pose),
                     OverlapOnly(ws_bag[slice_no],
                                 GravityStart(ws_bag[slice_no], ClientObject(d, k, pose)),
                                 RunShapeGrammarOverlap(ws_bag[slice_no], slice_no,
                                                        ClientObject(d, k, pose),
                                                        row_shift, TRUE)))

\* run_midpoint_recursion(simplex_pts) on the end points p and q
ClientMidpoint ==
    /\ pc = "client"
    /\ k < MAX_CALLS
    /\ \E p \in ClientPoints, q \in ClientPoints :
          /\ last' = [kind |-> "midpoint", z |-> slice_no, before |-> ws_bag[slice_no],
                      p |-> p, q |-> q,
                      res |-> RunMidpointRecursion(ws_bag[slice_no], slice_no, p, q, REC_DEPTH)]
    /\ k' = k + 1
    /\ UNCHANGED <<ws_bag, heap, obj_list, current_obj_list, with_shape_grammar,
                   slice_no, slice, pc, lateral_osc_flag, spawn_pose,
                   lqd_count, target_counter, target_dict, extents, param_file>>

NextClient == ClientAddObject \/ ClientOverlap \/ ClientMidpoint

SpecClient == InitClient /\ [][NextClient]_vars

\* ------------------------------------------------------------------------
\* Object2D on its own: construction, then the liquid container rule
\* ------------------------------------------------------------------------

\* the largest semi-axis of an ellipse and side of a box that is built
MAX_AXIS == 4

\* the largest wall thickness of a liquid container
MAX_THICK == 2

\* lqd_level: fractions that floating point holds exactly
Levels == {<<0, 1>>, <<1, 4>>, <<1, 2>>, <<3, 4>>, <<1, 1>>}

\* the descriptors handed to Object2D: ellipses, with semi-axes from 0,
\* and boxes, each a liquid container
ObjectCatalog ==
    {[shape |-> sh, geom |-> <<a, b>>, lqd_flag |-> TRUE, cntr_thickness |-> t,
      lqd_level |-> lv, lqd_label |-> EndLabel] :
        sh \in {"E", "B"}, a \in 0 .. MAX_AXIS, b \in 0 .. MAX_AXIS,
        t \in 1 .. MAX_THICK, lv \in Levels}

\* the rasterizer finds no cell set: coord.max() of the crop raises
RasterEmpty(d) ==
    \/ /\ d.shape = "E"
       /\ EllipseCells(Max(d.geom[1], d.geom[2]) + 1, Max(d.geom[1], d.geom[2]) + 1,
                       d.geom[1], d.geom[2], 2 * Max(d.geom[1], d.geom[2]) + 1) = {}
    \/ /\ d.shape = "B"
       /\ LET max_dim == 2 * (ISqrt(d.geom[1] * d.geom[1] + d.geom[2] * d.geom[2]) \div 2) + 1
              s0 == (max_dim - 1) \div 2 - d.geom[1] \div 2 + 1
              s1 == (max_dim - 1) \div 2 - d.geom[2] \div 2 + 1
          IN  {p \in Cells(max_dim, max_dim) :
                  /\ p[1] >= s0 /\ p[1] < s0 + d.geom[1] + 1
                  /\ p[2] >= s1 /\ p[2] < s1 + d.geom[2] + 1} = {}

InitObject ==
    /\ heap = <<>>
    /\ obj_list = <<>>
    /\ with_shape_grammar = TRUE
    /\ ws_bag = [z \in Slices |-> EmptyLayer]
    /\ current_obj_list = <<>>
    /\ slice_no = 0
    /\ slice = 0
    /\ k = 0
    /\ pc = "object"
    /\ lateral_osc_flag = FALSE
    /\ lqd_count = EndLabel
    /\ target_counter = 0
    /\ target_dict = NoTargets
    /\ extents = <<>>
    /\ param_file = <<>>
    /\ spawn_pose = <<>>
    /\ last = NoCall

\* Object2D(obj_dict, obj_pose)
ObjectNew ==
    /\ pc = "object"
    /\ heap = <<>>
    /\ \E d \in ObjectCatalog :
          IF RasterEmpty(d)
          THEN /\ pc' = "raised"
               /\ last' = [kind |-> "new", d |-> d, err |-> TRUE]
               /\ UNCHANGED heap
          ELSE /\ pc' = "built"
               /\ heap' = <<Object2D(d, StartLabel, <<SpawnRow, PoseRange[1]>>)>>
               /\ last' = [kind |-> "new", d |-> d, err |-> FALSE]
    /\ UNCHANGED <<ws_bag, obj_list, current_obj_list, with_shape_grammar, slice_no,
                   slice, k, lateral_osc_flag, spawn_pose,
                   lqd_count, target_counter, target_dict, extents, param_file>>

\* bag_obj.apply_liquid_container_rule()
ObjectLiquid ==
    /\ pc = "built"
    /\ heap' = <<ApplyLiquidContainerRule(heap[1])>>
    /\ last' = [kind |-> "liquid", z |-> slice_no, id |-> 1, before |-> ws_bag[slice_no],
                obj_in |-> heap[1], obj |-> ApplyLiquidContainerRule(heap[1])]
    /\ pc' = "filled"
    /\ UNCHANGED <<ws_bag, obj_list, current_obj_list, with_shape_grammar, slice_no,
                   slice, k, lateral_osc_flag, spawn_pose,
                   lqd_count, target_counter, target_dict, extents, param_file>>

NextObject == ObjectNew \/ ObjectLiquid

SpecObject == InitObject /\ [][NextObject]_vars

\* ------------------------------------------------------------------------
\* create_random_object_list, a pass of its loops at a time.  metal_dict is
\* the default (metal_amt None), so no object is rescaled as a metal
\* ------------------------------------------------------------------------

\* the largest target count asked for in target_dict['num_range']
MAX_TARGETS == 2

\* the values of target_dict: no range, or a range <<lo, hi>> with lo <= hi
TargetDicts ==
    {NoTargets} \cup
        {t \in {[num_range |-> <<lo, hi>>, is_liquid |-> b] :
                   lo \in 0 .. MAX_TARGETS, hi \in 0 .. MAX_TARGETS, b \in BOOLEAN} :
            t.num_range[1] <= t.num_range[2]}

\* the shapes drawn for the objects of the list
ListShapes == {[shape |-> "E", geom |-> <<2, 2>>], [shape |-> "S", geom |-> <<2, 3>>]}

\* lqd_param with liquid labels counted from start_label
LqdParamFromStart(lbl) ==
    [lqd_flag |-> TRUE, cntr_thickness |-> 1, lqd_level |-> <<1, 2>>,
     lqd_label |-> lbl - NUM_OBJECTS]

\* lqd_param with the liquid label lbl
LqdParam(lbl) ==
    [lqd_flag |-> TRUE, cntr_thickness |-> 1, lqd_level |-> <<1, 2>>, lqd_label |-> lbl]

\* create_sim_object and Object2D for the shape d and the label i: a liquid
\* container with the liquid label lbl, or a solid with none (0 here)
ListObjectOf(d, i, liquid, lbl) ==
    Object2D(d @@ (IF liquid THEN LqdParam(lbl) ELSE NoLiquid @@ [lqd_label |-> 0]),
             i, <<SpawnRow, PoseRange[1]>>)

\* target_dict['num_range'] is not None and target_counter == num_range[1]
AtMaxTargets(tc) ==
    /\ target_dict.num_range # <<>>
    /\ tc = target_dict.num_range[2]

\* target_dict['num_range'] is not None and target_counter < num_range[0]
BelowMinTargets ==
    /\ target_dict.num_range # <<>>
    /\ target_counter < target_dict.num_range[1]

InitList ==
    /\ heap = <<>>
    /\ obj_list = <<>>
    /\ with_shape_grammar = TRUE
    /\ ws_bag = [z \in Slices |-> EmptyLayer]
    /\ current_obj_list = <<>>
    /\ slice_no = 0
    /\ slice = 0
    /\ k = StartLabel
    /\ pc = "list"
    /\ lateral_osc_flag = FALSE
    /\ lqd_count = EndLabel
    /\ target_counter = 0
    /\ target_dict \in TargetDicts
    /\ extents = <<>>
    /\ param_file = <<>>
    /\ spawn_pose = <<>>
    /\ last = NoCall

\* the object obj is appended to obj_list
ListAppend(obj) ==
    /\ heap' = Append(heap, obj)
    /\ obj_list' = Append(obj_list, Len(heap) + 1)
    /\ UNCHANGED <<ws_bag, current_obj_list, with_shape_grammar, slice_no, slice,
                   lateral_osc_flag, target_dict, extents, param_file, spawn_pose, last>>

\* one pass of "for i in range(start_label, end_label)", k being i.  The
\* draws: the shape d, whether the material is a target (c_target), the
\* liquid option (liquid_draw), whether the liquid is a target (lqd_target)
ListObject ==
    /\ pc = "list"
    /\ \E d \in ListShapes, c_target \in BOOLEAN, liquid_draw \in BOOLEAN,
          lqd_target \in BOOLEAN :
          LET liquid_option == liquid_draw /\ d.shape # "S"
              \* the liquid branch: lqd_label = lqd_count, lqd_count += 1; a
              \* target liquid counts unless the maximum is reached; a
              \* target material is changed for another
              cnt1 == IF liquid_option THEN lqd_count + 1 ELSE lqd_count
              tc1 == IF liquid_option /\ lqd_target /\ ~AtMaxTargets(target_counter)
                     THEN target_counter + 1 ELSE target_counter
              c_mat == c_target /\ ~liquid_option
              \* change_object_material('nontarget', target_dict['is_liquid'])
              replaced == AtMaxTargets(tc1) /\ c_mat
              liquid == IF replaced THEN target_dict.is_liquid ELSE liquid_option
              lbl == IF replaced THEN cnt1 ELSE lqd_count
          IN  /\ ListAppend(ListObjectOf(d, k, liquid, lbl))
              /\ lqd_count' = IF replaced /\ target_dict.is_liquid THEN cnt1 + 1 ELSE cnt1
              /\ target_counter' = IF c_mat /\ ~replaced THEN tc1 + 1 ELSE tc1
    /\ k' = IF k + 1 < EndLabel THEN k + 1 ELSE k
    /\ pc' = IF k + 1 < EndLabel THEN "list" ELSE "targets"

\* one pass of "while target_counter < target_dict['num_range'][0]":
\* change_object_material('target', target_dict['is_liquid']) with label=i,
\* i being what the loop above left in it
ListTarget ==
    /\ pc = "targets"
    /\ BelowMinTargets
    /\ \E d \in ListShapes :
          ListAppend(ListObjectOf(d, k, target_dict.is_liquid, lqd_count))
    /\ lqd_count' = IF target_dict.is_liquid THEN lqd_count + 1 ELSE lqd_count
    /\ target_counter' = target_counter + 1
    /\ UNCHANGED <<k, pc>>

\* rdm.shuffle(obj_list); return obj_list
ListReturn ==
    /\ pc = "targets"
    /\ ~BelowMinTargets
    /\ \E perm \in Perms(Len(obj_list)) :
          obj_list' = [j \in 1 .. Len(obj_list) |-> obj_list[perm[j]]]
    /\ pc' = "returned"
    /\ UNCHANGED <<ws_bag, heap, current_obj_list, with_shape_grammar, slice_no, slice,
                   k, lateral_osc_flag, lqd_count, target_counter, target_dict, extents, param_file,
                   spawn_pose, last>>

NextList == ListObject \/ ListTarget \/ ListReturn

SpecList == InitList /\ [][NextList]_vars

\* ------------------------------------------------------------------------
\* The descent in a container given by its sides and in one given by a
\* mask: objects are put on the canvas of a slice with the overlap rule,
\* then an object is dropped with the gravity rule
\* ------------------------------------------------------------------------

\* the number of objects put on the canvas before the drop
MAX_PRIOR == 2

\* self.extents for a bag_mask that covers the cells inside the container
\* wall: its bounding box runs from size // 2 - bb_h to size // 2 + bb_h - 1
MaskExtents == <<2 * BB_H - 1, 2 * BB_H - 1>>

\* the descriptors of the objects put on the canvas and dropped
DescentCatalog ==
    { [shape |-> "E", geom |-> <<2, 2>>] @@ NoLiquid,
      [shape |-> "E", geom |-> <<1, 2>>] @@ NoLiquid }

\* the poses of the objects put on the canvas: near the floor
DescentPoses == {GroundY - 4, GroundY - 1} \X SpawnCols

\* the poses of the object dropped: a step of the descent above those
DropPoses == {GroundY - 4 - Z_INC, GroundY - 3 - Z_INC} \X SpawnCols

InitDescent ==
    /\ heap = <<>>
    /\ obj_list = <<>>
    /\ with_shape_grammar = TRUE
    /\ ws_bag = [z \in Slices |-> EmptyLayer]
    /\ current_obj_list = <<>>
    /\ slice_no = NUM_SLICES - 1
    /\ slice = 0
    /\ k = 0
    /\ pc = "prepare"
    /\ lateral_osc_flag = FALSE
    /\ lqd_count = EndLabel
    /\ target_counter = 0
    /\ target_dict = NoTargets
    /\ extents \in {<<>>, MaskExtents}
    /\ param_file = <<>>
    /\ spawn_pose = <<>>
    /\ last = NoCall

\* the state after add_object on the object obj returned with the record g
DescentDone(kind, obj, g, pc_after) ==
    /\ heap' = Append(heap, g.obj)
    /\ ws_bag' = LayersAfter(ws_bag, slice_no, g.lay)
    /\ lateral_osc_flag' = g.lateral
    /\ last' = CallRecord(kind, slice_no, k + 1, ws_bag[slice_no], obj, g)
    /\ pc' = IF g.err THEN "raised" ELSE pc_after
    /\ k' = k + 1
    /\ UNCHANGED <<obj_list, current_obj_list, with_shape_grammar, slice_no, slice,
                   spawn_pose, lqd_count, target_counter, target_dict, extents,
                   param_file>>

\* add_object(bag_obj, with_overlap_rule=True, with_gravity_rule=False)
DescentPlace ==
    /\ pc = "prepare"
    /\ k < MAX_PRIOR
    /\ \E d \in DescentCatalog, pose \in DescentPoses :
          DescentDone("overlap", ClientObject(d, k, pose),
                      AddObjectCall(ws_bag[slice_no], slice_no, ClientObject(d, k, pose),
                                    TRUE, FALSE),
                      "prepare")

\* add_object(bag_obj, with_gravity_rule=True)
DescentDrop ==
    /\ pc = "prepare"
    /\ \E d \in DescentCatalog, pose \in DropPoses :
          DescentDone("gravity", ClientObject(d, k, pose),
                      AddObjectCall(ws_bag[slice_no], slice_no, ClientObject(d, k, pose),
                                    FALSE, TRUE),
                      "dropped")

NextDescent == DescentPlace \/ DescentDrop

SpecDescent == InitDescent /\ [][NextDescent]_vars

\* ------------------------------------------------------------------------
\* Properties
\* ------------------------------------------------------------------------

\* the steps that commit an object to the canvas
CommitStep == pc \in {"place", "liquid"} /\ last' # last

\* the cell value v is the label of an object other than obj
OtherLabel(v, obj) == v > BB_LABEL /\ v # obj.label /\ v # obj.lqd_label

\* the cells of the layer lay that hold the label of an object other than obj
OtherCells(lay, obj) == {p \in DOMAIN lay : OtherLabel(lay[p], obj)}

\* C1, as stated: a commit (place_object_in_bag after a placement or after
\* the liquid fill, or the stamp of add_object) changes no cell that held
\* the label of another object
C1_CommitKeepsOtherLabels ==
    [][CommitStep =>
          \A p \in OtherCells(last'.before, last'.obj) :
              WsAt(ws_bag'[last'.z], last'.z, p[1], p[2]) = last'.before[p]]_vars

\* C1: a commit is reached that writes over cells of another object
C1_Overwritten ==
    /\ last.kind = "gravity"
    /\ last.z = 1
    /\ \E p \in OtherCells(last.before, last.obj) :
          WsAt(ws_bag[last.z], last.z, p[1], p[2]) = last.obj.label

\* the extent of the mask of obj on the axis i
Extent(obj, i) == IF i = 1 THEN obj.data.h ELSE obj.data.w

\* obj lies inside the container bounds on both axes
InsideBounds(obj) ==
    \A i \in 1 .. 2 :
        LowerBound <= obj.pose[i] /\ obj.pose[i] + Extent(obj, i) <= UpperBound

\* C2: after run_shape_grammar_overlap_and_gravity returns, the committed
\* object (a sheet or not) lies inside the container bounds on both axes:
\* lower_bound <= pose and pose + extent of the mask <= upper_bound
C2_CommittedInsideBounds ==
    (last.kind = "gravity" /\ ~last.err) => InsideBounds(last.obj)

\* C2: a descent is reached whose object the clamp trimmed
C2_Trimmed ==
    /\ last.kind = "gravity"
    /\ ~last.err
    /\ last.obj.shape = "E"
    /\ last.obj.data.w < last.obj_in.data.w
    /\ InsideBounds(last.obj)

\* the lowest canvas row that holds a foreground pixel of obj
LowestRow(obj) == obj.pose[1] + SetMax(Rows(Nz(obj.data)))

\* a descent of an object that is no sheet into a container that holds no
\* other object has returned
DroppedAlone ==
    /\ last.kind = "gravity"
    /\ ~last.err
    /\ last.obj.shape # "S"
    /\ DOMAIN last.before = {}

\* C3, as stated: an object that is no sheet, dropped into a container that
\* holds no other object, rests with its lowest foreground row on the row
\* just above the floor boundary row
C3_RestsOnFloor == DroppedAlone => LowestRow(last.obj) = GroundY - 1

\* C3: an object dropped alone is reached that rests one row higher
C3_Floating == DroppedAlone /\ last.z = 1 /\ LowestRow(last.obj) = GroundY - 2

\* the calls of run_shape_grammar_overlap of the last call that found the
\* object overlapping: the locals each returned with
OverlapCalls ==
    IF last.kind \in {"gravity", "overlap", "resolve"}
    THEN {last.calls[i] : i \in {j \in DOMAIN last.calls : last.calls[j].iters > 0}}
    ELSE {}

\* the object res of the resolver returned intersects the canvas content
Residual(res) == OverlapFlag(last.before, last.z, res.obj)

\* C4, as stated: run_shape_grammar_overlap, called on an object that
\* overlaps, returns with no residual intersection or with the lateral
\* oscillation flagged
C4_ResolvedOrOscillation ==
    \A res \in OverlapCalls : ~Residual(res) \/ res.osc

\* C4, amended: run_shape_grammar_overlap, called on an object that
\* overlaps, returns with no residual intersection, or with the lateral
\* oscillation flagged, or from the break on GROUND_FLAG
C4_ResolvedOscillationOrGround ==
    \A res \in OverlapCalls : ~Residual(res) \/ res.osc \/ res.ground

\* C4: a call is reached that returns from the break on GROUND_FLAG with
\* the object still overlapping and no oscillation flagged
C4_GroundBreakResidual ==
    \E res \in OverlapCalls : Residual(res) /\ ~res.osc /\ res.ground

\* a call that places an object that is no sheet has returned
PlacedNoSheet ==
    /\ last.kind \in {"gravity", "overlap", "resolve"}
    /\ last.obj_in.shape # "S"

\* C5: placing an object that is no sheet ends: the call returns without
\* raising, each call of run_shape_grammar_overlap has made at most 10
\* passes of its loop, the descent has made at most 50 steps, and
\* add_object has committed the object
C5_PlacementEnds ==
    PlacedNoSheet =>
        /\ ~last.err
        /\ \A i \in DOMAIN last.calls : last.calls[i].iters <= OL_CAP
        /\ last.drop_ctr <= DROP_CAP
        /\ last.kind # "resolve" => last.commits >= 1

\* C5: a call of run_shape_grammar_overlap is reached that ended on its
\* cap, after 10 passes, with the object still overlapping
C5_CapReached ==
    /\ PlacedNoSheet
    /\ \E i \in DOMAIN last.calls :
          /\ last.calls[i].iters = OL_CAP
          /\ OverlapFlag(last.before, last.z, last.calls[i].obj)

\* run_shape_grammar_overlap was called on an object that get_overlap
\* reports no overlap for
CalledWithoutOverlap ==
    /\ last.kind \in {"overlap", "resolve"}
    /\ ~OverlapFlag(last.before, last.z, last.obj_in)

\* C6: when get_overlap reports no overlap, run_shape_grammar_overlap
\* leaves the pose and the mask of the object as they were; with fix_obj it
\* commits the object at that pose and changes nothing else, without it the
\* canvas is unchanged
C6_NoOverlapNoChange ==
    CalledWithoutOverlap =>
        /\ last.obj.pose = last.obj_in.pose
        /\ last.obj.data = last.obj_in.data
        /\ ws_bag[last.z] = IF last.kind = "overlap"
                            THEN PlaceObjectInBag(last.before, last.z, last.obj_in)
                            ELSE last.before

\* C6: a call on an object that overlaps nothing is reached, on a canvas
\* that holds another object
C6_CalledBesideAnother ==
    /\ CalledWithoutOverlap
    /\ last.kind = "overlap"
    /\ last.z = 1
    /\ DOMAIN last.before # {}
    /\ ws_bag[last.z] # last.before

\* the first and the last row, and the first and the last column, of the
\* mask m each hold a foreground pixel
TightCrop(m) ==
    /\ {0, m.h - 1} \subseteq Rows(Nz(m))
    /\ {0, m.w - 1} \subseteq Cols(Nz(m))

\* C7, as stated: every mask the rasterizer produces is cropped to the
\* bounding box of its foreground
C7_MasksTight == \A i \in Range(obj_list) : TightCrop(heap[i].data)

\* C7: the ellipse of axes (1, 2) is reached, whose mask has a last row
\* without foreground
C7_EmptyLastRow ==
    \E i \in Range(obj_list) :
        /\ heap[i].shape = "E"
        /\ heap[i].axes = <<1, 2>>
        /\ heap[i].data.h - 1 \notin Rows(Nz(heap[i].data))

\* the number of clones of the slice that add_object has placed
Placed ==
    IF pc \in {"place", "raised"} THEN k - 1
    ELSE IF pc = "liquid" THEN NUM_OBJECTS
    ELSE 0

\* the j-th clone of the slice as it was spawned: the object of the input
\* list with its label, at the spawn pose
Spawned(j) ==
    LET src == CHOOSE i \in Range(obj_list) :
                   heap[i].label = heap[current_obj_list[j]].label
    IN  [heap[src] EXCEPT !.pose = spawn_pose[j]]

RECURSIVE ReplayLayer(_)
\* add_object on the j-th clone, on the layer that the clones before it
\* alone leave
ReplayCall(j) ==
    AddObjectCall(ReplayLayer(j - 1), slice_no, Spawned(j), FALSE, with_shape_grammar)

\* the layer the first j clones of the slice leave, placed in their order
\* from their spawn poses
ReplayLayer(j) == IF j = 0 THEN EmptyLayer ELSE ReplayCall(j).lay

\* C8: the pose of every placed object of a slice is the pose that its spawn
\* pose and the objects before it in the order of the slice give, whatever
\* comes later in the order
C8_PoseFromEarlierOnly ==
    \A j \in 1 .. Placed : heap[current_obj_list[j]].pose = ReplayCall(j).obj.pose

\* C8: a slice is reached whose second object rests where it would not
\* without the first, the first resting where it would alone
C8_BlockedByEarlier ==
    /\ Placed = NUM_OBJECTS
    /\ slice_no = 1
    /\ heap[current_obj_list[2]].pose
           # AddObjectCall(EmptyLayer, slice_no, Spawned(2), FALSE, with_shape_grammar).obj.pose
    /\ heap[current_obj_list[1]].pose = ReplayCall(1).obj.pose

\* the steps of the loop body of the slice in the variable slice: the
\* cloning with the spawn poses, the placements, the liquid fills
SliceStep == pc \in {"slice", "place", "liquid"}

\* C9: the steps of a slice change no pose, dim or mask of an object of the
\* input list, and no canvas layer of another slice
C9_SliceFrame ==
    [][SliceStep =>
          /\ \A i \in Range(obj_list) :
                /\ heap'[i].pose = heap[i].pose
                /\ heap'[i].dim = heap[i].dim
                /\ heap'[i].data = heap[i].data
          /\ \A z \in Slices \ {slice} : ws_bag'[z] = ws_bag[z]]_vars

\* C9: the second slice is reached with its objects placed, a clone moved
\* from the pose of its original, the layer of the first slice written
C9_SecondSlicePlaced ==
    /\ pc = "liquid"
    /\ slice = 1
    /\ DOMAIN ws_bag[0] # {}
    /\ DOMAIN ws_bag[1] # {}
    /\ \E j \in DOMAIN current_obj_list, i \in Range(obj_list) :
          /\ heap[current_obj_list[j]].label = heap[i].label
          /\ heap[current_obj_list[j]].pose # heap[i].pose

\* the leaf is a base case: the midpoint of the leaf, moved to the nearest
\* free cell of its column, is one of the end points of the leaf
BaseCaseLeaf(lay, z, leaf) ==
    LET m == MidPt(leaf[1], leaf[2])
    IN  /\ FreeRows(lay, z, m[2]) # {}
        /\ <<NearestFree(lay, z, m[2], m[1]), m[2]>> \in {leaf[1], leaf[2]}

\* no cell of the rasterized leaf is occupied, or the leaf is a base case
LeafFreeOrBase(lay, z, leaf) ==
    ~LineOverlap(lay, z, leaf[1], leaf[2]) \/ BaseCaseLeaf(lay, z, leaf)

\* C10: every leaf that run_midpoint_recursion returns, called by the
\* client or by the fitting of a sheet, has no rasterized pixel on an
\* occupied cell or is a base case; a segment with no pixel on an occupied
\* cell comes back as the single leaf it was
C10_LeavesFreeOrBase ==
    /\ (last.kind = "midpoint" /\ ~last.res.err) =>
          /\ \A i \in DOMAIN last.res.leaves :
                LeafFreeOrBase(last.before, last.z, last.res.leaves[i])
          /\ ~LineOverlap(last.before, last.z, last.p, last.q) =>
                last.res.leaves = << <<last.p, last.q>> >>
    /\ (last.kind = "gravity" /\ last.fitted) =>
          \A i \in DOMAIN last.leaves :
              LeafFreeOrBase(last.before, last.z, last.leaves[i])

\* C10: a call on an obstructed segment is reached that returns several
\* leaves, one of them a base case that lies on an occupied cell
C10_ObstructedSplit ==
    /\ last.kind = "midpoint"
    /\ ~last.res.err
    /\ LineOverlap(last.before, last.z, last.p, last.q)
    /\ Len(last.res.leaves) > 1
    /\ \E i \in DOMAIN last.res.leaves :
          /\ LineOverlap(last.before, last.z, last.res.leaves[i][1], last.res.leaves[i][2])
          /\ BaseCaseLeaf(last.before, last.z, last.res.leaves[i])

\* C11: every call of run_midpoint_recursion ends with leaves: it returns,
\* and each sub-segment it returns has no pixel on an occupied cell or has
\* its relocated midpoint on one of its end points
C11_RecursionEndsInLeaves ==
    last.kind = "midpoint" =>
        /\ ~last.res.err
        /\ Len(last.res.leaves) >= 1
        /\ \A i \in DOMAIN last.res.leaves :
              LeafFreeOrBase(last.before, last.z, last.res.leaves[i])

\* C11: a call is reached on an obstructed segment whose midpoint lies in
\* a column without a free cell: argmin of an empty array raises
C11_RaisedOnFullColumn ==
    /\ last.kind = "midpoint"
    /\ LineOverlap(last.before, last.z, last.p, last.q)
    /\ FreeRows(last.before, last.z, MidPt(last.p, last.q)[2]) = {}
    /\ last.res.err
    /\ last.res.leaves = <<>>

\* the cells of the layer lay of slice z that hold placed material: a value
\* other than 0 outside the boundary
PlacedCells(lay, z) ==
    {p \in DOMAIN lay : lay[p] # 0 /\ ~Boundary(p[1], p[2], z)}

\* the canvas cells under the foreground of the object's mask at its pose
Footprint(obj) ==
    {<<obj.pose[1] + p[1], obj.pose[2] + p[2]>> : p \in Nz(obj.data)}

\* C12: when the descent of a sheet fits it, the mask inflate_sheet returns
\* has no foreground pixel on a cell that held placed material, and every
\* cell that held placed material before the call holds the same value
\* after it
C12_InflatedSheetDisplacesNothing ==
    (last.kind = "gravity" /\ last.fitted /\ ~last.err) =>
        /\ Footprint(last.inflated) \cap PlacedCells(last.before, last.z) = {}
        /\ \A p \in PlacedCells(last.before, last.z) :
              WsAt(ws_bag[last.z], last.z, p[1], p[2]) = last.before[p]

\* C12: a sheet is fitted over placed material: the dilation of its curve
\* covered a cell that held placed material, which inflate_sheet cleared
C12_InflatedBesidePlaced ==
    /\ last.kind = "gravity"
    /\ last.fitted
    /\ ~last.err
    /\ last.inflated.pose[1] >= 0
    /\ \E p \in PlacedCells(last.before, last.z) :
          /\ p[1] - last.inflated.pose[1] \in 0 .. last.inflated.data.h - 1
          /\ p[2] - last.inflated.pose[2] \in 0 .. last.inflated.data.w - 1
          /\ last.inflated.data.v[<<p[1] - last.inflated.pose[1],
                                    p[2] - last.inflated.pose[2]>>] = 0
          /\ \E d \in Disk(last.inflated.axes[1]) :
                <<p[1] + d[1], p[2] + d[2]>> \in
                    UNION {Line(last.leaves[i][1], last.leaves[i][2]) :
                              i \in DOMAIN last.leaves}

\* the eroded interior cavity of a container: the cells of its footprint
\* that binary_erosion with disk(cntr_thickness) keeps
Cavity(obj) == Nz(BinaryErosion(obj.data, obj.cntr_thickness))

\* the cells of the cavity of the container obj_in that hold the value v
\* in the mask of obj
CavityCells(obj_in, obj, v) == {p \in Cavity(obj_in) : obj.data.v[p] = v}

\* C13: after apply_liquid_container_rule at level 1.0 every cell of the
\* eroded cavity holds the liquid label, and none holds the void marker
C13_FullLevelFillsCavity ==
    (last.kind = "liquid" /\ last.obj_in.lqd_level = <<1, 1>>) =>
        /\ CavityCells(last.obj_in, last.obj, last.obj_in.lqd_label) = Cavity(last.obj_in)
        /\ CavityCells(last.obj_in, last.obj, VOID) = {}

\* C13: a container with a cavity of several rows below the first row of
\* its mask is filled at level 1.0, and the wall keeps the label
C13_FilledCavity ==
    /\ last.kind = "liquid"
    /\ last.obj_in.lqd_level = <<1, 1>>
    /\ Cardinality(Rows(Cavity(last.obj_in))) > 1
    /\ 0 \notin Rows(Cavity(last.obj_in))
    /\ \A p \in Cavity(last.obj_in) : last.obj.data.v[p] = last.obj_in.lqd_label
    /\ \E p \in DOMAIN last.obj.data.v : last.obj.data.v[p] = last.obj_in.label

\* the fill line of the container obj_in measured within the row extent of
\* its cavity: the first cavity row plus int((1 - lqd_level) * (max - min))
FillLine(obj_in) ==
    LET e_row == Rows(Cavity(obj_in))
    IN  SetMin(e_row)
           + ((obj_in.lqd_level[2] - obj_in.lqd_level[1]) * (SetMax(e_row) - SetMin(e_row)))
                 \div obj_in.lqd_level[2]

\* C14, as stated: after apply_liquid_container_rule the liquid cells of
\* the cavity are those from the fill line down, the fill line taken
\* within the cavity's own rows; at level 0.0 no cell is liquid but cells
\* of the bottom cavity row
C14_FillLineWithinCavity ==
    (last.kind = "liquid" /\ Cavity(last.obj_in) # {}) =>
        /\ CavityCells(last.obj_in, last.obj, last.obj_in.lqd_label)
              = {p \in Cavity(last.obj_in) : p[1] >= FillLine(last.obj_in)}
        /\ last.obj_in.lqd_level = <<0, 1>> =>
              Rows(CavityCells(last.obj_in, last.obj, last.obj_in.lqd_label))
                  \subseteq {SetMax(Rows(Cavity(last.obj_in)))}

\* C14: a container whose cavity starts below row 0 of the mask is filled
\* at level 0.0 and holds liquid in more rows than the bottom cavity row
C14_LiquidAboveBottomRow ==
    /\ last.kind = "liquid"
    /\ last.obj_in.lqd_level = <<0, 1>>
    /\ Cavity(last.obj_in) # {}
    /\ 0 \notin Rows(Cavity(last.obj_in))
    /\ Cardinality(Rows(CavityCells(last.obj_in, last.obj, last.obj_in.lqd_label))) > 1

\* C15: when the erosion leaves no cavity, apply_liquid_container_rule
\* returns without raising and the container is as it was before the call
C15_FailedFillLeavesMask ==
    (last.kind = "liquid" /\ Cavity(last.obj_in) = {}) =>
        /\ last.obj = last.obj_in
        /\ pc # "raised"

\* C15: the rule has returned on a container whose footprint the wall
\* thickness erodes to nothing, and the mask still holds the label only
C15_NoCavityUnchanged ==
    /\ last.kind = "liquid"
    /\ pc = "filled"
    /\ Nz(last.obj_in.data) # {}
    /\ Cavity(last.obj_in) = {}
    /\ heap[1].data = last.obj_in.data
    /\ \A p \in DOMAIN heap[1].data.v : heap[1].data.v[p] \in {0, heap[1].label}

\* the objects of the list create_random_object_list returned
Returned == {heap[obj_list[j]] : j \in DOMAIN obj_list}

\* C16, as stated: the objects of the returned list carry pairwise distinct
\* positive labels
C16_SolidLabelsDistinct ==
    pc = "returned" =>
        \A a \in DOMAIN obj_list, b \in DOMAIN obj_list :
            /\ heap[obj_list[a]].label > 0
            /\ a # b => heap[obj_list[a]].label # heap[obj_list[b]].label

\* C16: a list is returned to which a target object was appended to reach
\* the minimum count, and the appended object carries the label of the
\* last object of the main loop
C16_AppendedTargetSharesLabel ==
    /\ pc = "returned"
    /\ Len(obj_list) > NUM_OBJECTS
    /\ heap[NUM_OBJECTS + 1].label = EndLabel - 1
    /\ heap[NUM_OBJECTS].label = EndLabel - 1

\* C17: in the returned list every liquid label is greater than every
\* object label, and no two liquid containers have the same liquid label
C17_LiquidLabelsAboveSolid ==
    pc = "returned" =>
        \A a \in DOMAIN obj_list :
            heap[obj_list[a]].lqd_flag =>
                /\ \A o \in Returned : heap[obj_list[a]].lqd_label > o.label
                /\ \A b \in DOMAIN obj_list :
                      (b # a /\ heap[obj_list[b]].lqd_flag) =>
                          heap[obj_list[b]].lqd_label # heap[obj_list[a]].lqd_label

\* C17: a list is returned with a liquid container of the main loop and a
\* liquid container appended as a target, the two with liquid labels of
\* their own above the label they share
C17_LiquidInLoopAndAppended ==
    /\ pc = "returned"
    /\ Len(obj_list) > NUM_OBJECTS
    /\ heap[NUM_OBJECTS + 1].lqd_flag
    /\ heap[NUM_OBJECTS].lqd_flag
    /\ heap[NUM_OBJECTS].label = heap[NUM_OBJECTS + 1].label
    /\ heap[NUM_OBJECTS].lqd_label # heap[NUM_OBJECTS + 1].lqd_label
    /\ heap[NUM_OBJECTS].lqd_label > heap[NUM_OBJECTS].label

\* the clone of the last slice placed for the entry j of obj_list
PlacedClone(j) ==
    heap[CHOOSE id \in Range(current_obj_list) : heap[id].label = heap[obj_list[j]].label]

\* C18, as stated: when create_baggage_image has written the metadata, the
\* centre of each record is the centre of the object at the pose it has
\* after placement, in container-absolute coordinates
C18_MetadataFromFinalPose ==
    pc = "done" =>
        \A j \in DOMAIN param_file :
            param_file[j].center = MetadataCentre(PlacedClone(j))

\* C18: the metadata is written for an object that came to rest below its
\* spawn row, and its record holds the centre at the pose the object of the
\* argument list was built with
C18_MetadataFromListPose ==
    /\ pc = "done"
    /\ \E j \in DOMAIN param_file :
          /\ PlacedClone(j).pose[1] > SpawnRow
          /\ param_file[j].center = MetadataCentre(heap[obj_list[j]])
          /\ param_file[j].center # MetadataCentre(PlacedClone(j))

\* C19, as stated: every construction ends with an object whose mask has
\* positive extent and a foreground cell; none raises
C19_ConstructionEndsWithMask ==
    last.kind = "new" =>
        /\ ~last.err
        /\ pc = "built"
        /\ heap[1].data.h > 0
        /\ heap[1].data.w > 0
        /\ Nz(heap[1].data) # {}

\* C19: the construction of an ellipse with a zero semi-axis has raised:
\* the rasterizer set no cell and the crop took the maximum of no row
C19_ZeroAxisRaised ==
    /\ last.kind = "new"
    /\ last.d.shape = "E"
    /\ 0 \in {last.d.geom[1], last.d.geom[2]}
    /\ last.err
    /\ pc = "raised"
    /\ heap = <<>>

\* C20, as stated: add_object without rules returns without raising, and
\* the canvas region of the mask's extent at the spawn pose holds the mask
C20_StampWritesWholeMask ==
    last.kind = "stamp" =>
        /\ ~last.err
        /\ \A p \in DOMAIN last.obj_in.data.v :
              WsAt(ws_bag[last.z], last.z,
                   last.obj_in.pose[1] + p[1], last.obj_in.pose[2] + p[2])
                  = last.obj_in.data.v[p]

\* C20: with the shape grammar disabled add_object has raised on a mask of
\* several rows and columns: the region it assigns to has half the mask's
\* extent, and the canvas is as it was
C20_StampRaised ==
    /\ last.kind = "stamp"
    /\ ~with_shape_grammar
    /\ last.err
    /\ pc = "raised"
    /\ last.obj_in.data.h > 1
    /\ last.obj_in.data.w > 1
    /\ StampRows(last.obj_in) = last.obj_in.dim[1] \div 2
    /\ StampRows(last.obj_in) # last.obj_in.data.h
    /\ ws_bag[last.z] = last.before

\* the calls of run_shape_grammar_overlap of the last call that set
\* LATERAL_OSC_FLAG
FlaggedCalls == {res \in OverlapCalls : res.osc}

\* every pass of the call res left the object at a pose other than the one
\* recorded for the pass before
EveryPassMoved(res) ==
    \A i \in 1 .. Len(res.pose_list) - 1 : res.pose_list[i + 1] # res.pose_list[i]

\* C21, as stated: run_shape_grammar_overlap sets LATERAL_OSC_FLAG only in
\* a pass whose pose after the shifts equals the pose recorded for the pass
\* before, and a call whose every pass moved the object to a new pose does
\* not set it
C21_FlagOnlyOnReturnedPose ==
    \A res \in OverlapCalls :
        /\ res.osc => res.pose_list[res.osc_iter + 1] = res.pose_list[res.osc_iter]
        /\ EveryPassMoved(res) => ~res.osc

\* C21: a call is reached that set the flag in its third pass although the
\* three passes left the object at poses that differ from one another and
\* from the pose the call was made with
C21_FlaggedWhileMoving ==
    \E res \in FlaggedCalls :
        /\ res.osc_iter = OSC_START + 1
        /\ \A i \in 1 .. 4, j \in 1 .. 4 :
              i # j => res.pose_list[i] # res.pose_list[j]

\* C22, as stated: a call of run_shape_grammar_overlap that set
\* LATERAL_OSC_FLAG applied the escape shift once, and it returns the object
\* at the pose the pass that set the flag left it at
C22_OneEscapeThenFrozen ==
    \A res \in FlaggedCalls :
        /\ res.escapes = 1
        /\ res.obj.pose = res.osc_pose

\* C22: a call is reached that went through passes after the one that set
\* the flag, applied the escape shift in each of them, and returns the
\* object above the pose the flagged pass left it at
C22_EscapeRepeated ==
    \E res \in FlaggedCalls :
        /\ res.iters > res.osc_iter
        /\ res.escapes = res.iters - res.osc_iter + 1
        /\ res.escapes > 1
        /\ res.obj.pose[1] < res.osc_pose[1]
        /\ res.obj.pose[2] = res.osc_pose[2]

\* C23, as stated: in no descent step of run_shape_grammar_overlap_and_gravity
\* is run_shape_grammar_overlap called more than 10 times
C23_AtMostTenCallsPerStep ==
    last.kind = "gravity" => last.max_step_calls <= GRAV_OL_CAP

\* C23: a descent in the container given by its sides is reached with a
\* step that called the overlap rule 11 times, each call returning the
\* object on the floor row and still overlapping
C23_ElevenCalls ==
    /\ last.kind = "gravity"
    /\ ~last.err
    /\ extents = <<>>
    /\ last.max_step_calls = GRAV_OL_CAP + 1
    /\ \A i \in 1 .. GRAV_OL_CAP + 1 :
          /\ last.calls[i].ground
          /\ OverlapFlag(last.before, last.z, last.calls[i].obj)

\* the descent of the last call took the floor branch with the object
\* overlapping: the call of the overlap rule made there is the last one
FloorPass == last.kind = "gravity" /\ ~last.err /\ last.floor /\ last.commits = 2

\* C24, as stated: when the descent takes the floor branch, the pass of the
\* overlap rule made there returns the object on the row it was called
\* with, and the object is committed with pose row + dim row on ground_y,
\* whether the container is given by its sides or by a mask
C24_FloorPassKeepsRow ==
    /\ FloorPass =>
          last.calls[Len(last.calls)].obj.pose[1]
              = last.calls[Len(last.calls)].pose_list[1][1]
    /\ (last.kind = "gravity" /\ ~last.err /\ last.floor) =>
          last.obj.pose[1] + last.obj.dim[1] = GravityGroundY

\* C24: in a container given by a mask the floor branch is reached with the
\* object overlapping; the overlap rule, called with row_shift=False, has
\* applied its escape shift and the object is committed above ground_y
C24_LiftedInFloorPass ==
    /\ FloorPass
    /\ extents # <<>>
    /\ GravityGroundY < GroundY
    /\ ~last.calls[Len(last.calls)].row_shift
    /\ last.calls[Len(last.calls)].escapes >= 1
    /\ last.calls[Len(last.calls)].pose_list[1][1] + last.obj_in.dim[1] = GravityGroundY
    /\ last.obj.pose[1] + last.obj.dim[1] < GravityGroundY

\* the foreground pixels of obj that lie, with the object at pose, on cells
\* of the layer lay of slice z that hold placed material
OverlapPixels(lay, z, obj, pose) ==
    {p \in Nz(obj.data) :
        /\ <<pose[1] + p[1], pose[2] + p[2]>> \in DOMAIN lay
        /\ lay[<<pose[1] + p[1], pose[2] + p[2]>>] # 0
        /\ ~Boundary(pose[1] + p[1], pose[2] + p[2], z)}

\* the connected components of a set of pixels that no other has more
\* pixels than
LargestComponents(S) ==
    LET cs == {Grow(S, {p}) : p \in S}
    IN  {c \in cs : \A d \in cs : Cardinality(c) >= Cardinality(d)}

\* the change of the pose on an axis as the rule states it, for a bounding
\* box from lo to hi in a frame whose last index is n
StatedShift(lo, hi, n) ==
    IF lo > 0 /\ hi = n THEN -(hi - lo + 1)
    ELSE IF lo = 0 /\ hi < n THEN hi - lo + 1
    ELSE 0

\* the pass ps of a call on obj moved the pose as the rule states for the
\* component c: by the stated shift on an axis with shifting enabled, not
\* at all on the other
PassFollowsRule(ps, obj, c) ==
    /\ ps.to[1] - ps.from[1] =
          IF ps.row_shift
          THEN StatedShift(SetMin(Rows(c)), SetMax(Rows(c)), obj.data.h - 1)
          ELSE 0
    /\ ps.to[2] - ps.from[2] =
          IF ps.col_shift
          THEN StatedShift(SetMin(Cols(c)), SetMax(Cols(c)), obj.data.w - 1)
          ELSE 0

\* C25: in every pass of run_shape_grammar_overlap the shifts change the
\* pose on an axis with shifting enabled by -(extent + 1) when the bounding
\* box of a largest overlap component touches only the far edge of the
\* object's frame, by +(extent + 1) when it touches only the near edge, and
\* by 0 when it spans the frame or touches neither edge
C25_ShiftByOverlapEdge ==
    \A res \in OverlapCalls :
        \A i \in DOMAIN res.passes :
            \E c \in LargestComponents(OverlapPixels(last.before, last.z, res.obj,
                                                     res.passes[i].from)) :
                PassFollowsRule(res.passes[i], res.obj, c)

\* C25: a call is reached with a pass that moved the object on both axes,
\* back along the rows by more than a row, as the rule states for a
\* largest component of its overlap
C25_ShiftedOnBothAxes ==
    \E res \in OverlapCalls :
        \E i \in DOMAIN res.passes :
            /\ res.passes[i].to[1] < res.passes[i].from[1] - 1
            /\ res.passes[i].to[2] # res.passes[i].from[2]
            /\ \E c \in LargestComponents(OverlapPixels(last.before, last.z, res.obj,
                                                        res.passes[i].from)) :
                  PassFollowsRule(res.passes[i], res.obj, c)

\* the mask of obj holds nothing but its label: no rule has filled it
Unfilled(obj) == \A p \in DOMAIN obj.data.v : obj.data.v[p] \in {0, obj.label}

\* b is the container a after the liquid rule: at the same pose, the cells
\* of its cavity liquid or void, the others as they were
FilledFrom(a, b) ==
    /\ b.pose = a.pose
    /\ \A p \in DOMAIN a.data.v :
          IF p \in Cavity(a) THEN b.data.v[p] \in {a.lqd_label, VOID}
          ELSE b.data.v[p] = a.data.v[p]

\* the layer lay of slice z holds the foreground of obj at its pose
Committed(lay, z, obj) ==
    \A p \in Nz(obj.data) :
        (obj.pose[1] + p[1] \in 0 .. Size - 1 /\ obj.pose[2] + p[2] \in 0 .. Size - 1) =>
            WsAt(lay, z, obj.pose[1] + p[1], obj.pose[2] + p[2]) = obj.data.v[p]

\* C26: in every slice the liquid loop starts only when add_object has
\* returned for the last object of the slice; until then no clone of the
\* slice is filled; each pass of the liquid loop fills the object it visits
\* when that is a liquid container, commits it as filled and changes no
\* other object, and leaves canvas and objects alone otherwise; the loop
\* visits every object of the slice
C26_LiquidAfterPlacement ==
    [][/\ (pc # "liquid" /\ pc' = "liquid") => (pc = "place" /\ k = NUM_OBJECTS)
       /\ pc \in {"slice", "place"} =>
             \A id \in Range(current_obj_list') : Unfilled(heap'[id])
       /\ pc = "liquid" =>
             /\ IF heap[current_obj_list[k]].lqd_flag
                THEN /\ FilledFrom(heap[current_obj_list[k]], heap'[current_obj_list[k]])
                     /\ Committed(ws_bag'[slice_no], slice_no, heap'[current_obj_list[k]])
                     /\ \A id \in DOMAIN heap \ {current_obj_list[k]} : heap'[id] = heap[id]
                ELSE heap' = heap /\ ws_bag' = ws_bag
             /\ IF k < NUM_OBJECTS THEN pc' = "liquid" /\ k' = k + 1
                ELSE pc' # "liquid"]_vars

\* C26: the liquid loop of the second slice has filled a container that was
\* placed before another object of the slice, and the canvas holds its
\* liquid label
C26_FilledAfterAllPlaced ==
    /\ pc = "liquid"
    /\ slice_no = 1
    /\ last.kind = "liquid"
    /\ last.id = current_obj_list[1]
    /\ \E p \in Cavity(last.obj_in) :
          /\ last.obj.data.v[p] = last.obj.lqd_label
          /\ WsAt(ws_bag[slice_no], slice_no, last.obj.pose[1] + p[1],
                  last.obj.pose[2] + p[2]) = last.obj.lqd_label
    /\ \A id \in Range(current_obj_list) \ {last.id} :
          /\ Unfilled(heap[id])
          /\ heap[id].pose[1] > SpawnRow


\* the canvas cell of end point i of the sheet obj_in after n descent steps:
\* pose plus curve point
EndPointAt(obj_in, n, i) ==
    <<obj_in.pose[1] + n * Z_INC + obj_in.curve_pts[i][1],
      obj_in.pose[2] + obj_in.curve_pts[i][2]>>

\* after n descent steps an end point of the sheet obj_in is at or past the
\* floor or on an occupied cell of the layer lay of slice z
EndPointStops(lay, z, obj_in, n) ==
    \E i \in 1 .. 2 :
        \/ EndPointAt(obj_in, n, i)[1] >= GravityGroundY
        \/ WsAt(lay, z, EndPointAt(obj_in, n, i)[1], EndPointAt(obj_in, n, i)[2]) > 0

\* C27, as stated: the descent of a sheet starts the fitting at the first
\* descent step after which one of its end points, pose plus curve point,
\* is at or past the floor or on an occupied canvas cell: at the step of
\* the fitting that holds, and at no step before it
C27_FitAtFirstEndPointContact ==
    (last.kind = "gravity" /\ last.obj_in.shape = "S") =>
        /\ (last.fitted \/ last.err) =>
              EndPointStops(last.before, last.z, last.obj_in, last.drop_ctr)
        /\ \A n \in 1 .. last.drop_ctr - 1 :
              ~EndPointStops(last.before, last.z, last.obj_in, n)

\* C27: a sheet is fitted at its first descent step with both end points
\* above the floor and on free cells: COLL_FLAG read the canvas at the
\* curve points themselves, which lie on the container wall
C27_FittedOverFreeCells ==
    /\ last.kind = "gravity"
    /\ last.obj_in.shape = "S"
    /\ last.fitted
    /\ last.drop_ctr = 1
    /\ ~EndPointStops(last.before, last.z, last.obj_in, 1)
    /\ SheetCollFlag(last.before, last.z, last.obj_in)
    /\ \A i \in 1 .. 2 :
          Boundary(last.obj_in.curve_pts[i][1], last.obj_in.curve_pts[i][2], last.z)


\* the boundary cells of slice z whose value in the layer lay is not the
\* boundary label
BoundaryChanged(lay, z) ==
    {p \in DOMAIN lay : Boundary(p[1], p[2], z) /\ lay[p] # BB_LABEL}

\* C28, as stated: whatever has been placed, every cell of the static
\* boundary mask holds the boundary label
C28_BoundaryCellsKept ==
    \A z \in Slices : BoundaryChanged(ws_bag[z], z) = {}

\* C28: create_baggage_image has placed an object with the gravity rule in
\* the slice that is a face of the container, where get_overlap takes
\* every cell as free: cells that held the boundary label before the call
\* hold the object's label
C28_BoundaryOverwritten ==
    /\ last.kind = "gravity"
    /\ ~last.err
    /\ last.commits >= 1
    /\ \A r, c \in 0 .. Size - 1 : Boundary(r, c, last.z)
    /\ BoundaryChanged(last.before, last.z) = {}
    /\ Footprint(last.obj) # {}
    /\ \A p \in Footprint(last.obj) :
          /\ p \in BoundaryChanged(ws_bag[last.z], last.z)
          /\ ws_bag[last.z][p] = last.obj.label


\* the value the mask of obj holds at the canvas cell p
ValueAt(obj, p) == obj.data.v[<<p[1] - obj.pose[1], p[2] - obj.pose[2]>>]

\* the canvas cell p lies outside the container bounds on some axis
OutsideBounds(p) ==
    \E i \in 1 .. 2 : p[i] < LowerBoundOf(i) \/ p[i] >= UpperBoundOf(i)

\* b is a trimmed: the foreground of b lies on canvas cells that were
\* foreground of a, with the same value; the foreground cells of a that b
\* lost lay outside the container bounds; dim of b is the shape of its mask
OnlyTrimmed(a, b) ==
    /\ \A p \in Footprint(b) : p \in Footprint(a) /\ ValueAt(b, p) = ValueAt(a, p)
    /\ \A p \in Footprint(a) \ Footprint(b) : OutsideBounds(p)
    /\ b.dim = <<b.data.h, b.data.w>>

\* C29, as stated: the object _adjust_for_boundaries returns at the end of
\* run_shape_grammar_overlap_and_gravity is the object it was given, trimmed
C29_AdjustOnlyTrims ==
    (last.kind = "gravity" /\ ~last.err) => OnlyTrimmed(last.unadjusted, last.obj)


\* C29: a descent is reached whose object _adjust_for_boundaries moved
\* without trimming it: the overlap rule had left the object its whole
\* width before the lower bound, dim became 0, data[:, -0:] kept the whole
\* mask, and its foreground lies on cells it did not cover before
C29_MovedNotTrimmed ==
    /\ last.kind = "gravity"
    /\ ~last.err
    /\ last.obj.data = last.unadjusted.data
    /\ last.obj.pose[1] = last.unadjusted.pose[1]
    /\ last.obj.pose[2] = last.unadjusted.pose[2] + last.unadjusted.dim[2]
    /\ last.obj.pose[2] = LowerBoundOf(2)
    /\ last.obj.dim[2] = 0
    /\ Footprint(last.obj) # {}
    /\ Footprint(last.obj) \cap Footprint(last.unadjusted) = {}
    /\ \A p \in Footprint(last.unadjusted) : OutsideBounds(p)


\* the cells of slice z that differ, in the canvas before or after a step,
\* from the canvas as constructed (which holds 0 and the boundary label)
Written(z) == (DOMAIN ws_bag[z]) \cup (DOMAIN ws_bag'[z])

====
